---- MODULE Spec2Model ----
(***************************************************************************)
(* A model of the voice command pipeline of MARS:                          *)
(*   core/memory.py          ConversationMemory                            *)
(*   core/skill_registry.py  SkillRegistry                                 *)
(*   core/ai_engine.py       AIEngine (the tool-calling loop)              *)
(*   core/wake_word.py       WakeWordDetector                              *)
(*   core/listener.py        Listener, and transcribe of main.py           *)
(*   core/speaker_verify.py  SpeakerVerifier                               *)
(*   main.py                 run, the main loop, and its functions         *)
(* Each component has its own specification: SpecMemory, SpecRegistry,     *)
(* Spec (the engine), SpecWake, SpecListener, SpecVerifier and             *)
(* SpecOrchestrator (SpecOrchestratorFair with every blocking call         *)
(* returning).  SpecSnapshot is the memory with a caller that keeps the    *)
(* list get_history returned, SpecCosine the function _cosine_similarity   *)
(* applied to two vectors.                                                 *)
(*                                                                         *)
(* In the conversational core a Python string is a sequence of string      *)
(* fragments, so that an f-string is the concatenation of its literal      *)
(* parts and its fields and "s contains t" is a question about fragments.  *)
(* Python's None is the value None below.  A dict of keyword arguments is  *)
(* modelled by its set of keys.  The conventions of the audio components   *)
(* are stated at the head of their sections.                               *)
(***************************************************************************)
EXTENDS Integers, Sequences, FiniteSets, TLC

VARIABLES
    \* ConversationMemory (core/memory.py)
    history,          \* self._history
    max_messages,     \* self.max_messages
    added,            \* ghost: every message handed to add_message, in order
    \* SkillRegistry (core/skill_registry.py)
    skills,           \* self._skills, an insertion-ordered dict
    exec_out,         \* ghost: outcome of the last direct execute() call
    \* AIEngine (core/ai_engine.py)
    registry_attached,\* self.registry is not None
    pc,               \* where chat() is: idle, await (a backend call), returned, raised
    messages,         \* the in-flight message list of the running chat()
    depth,            \* number of active _process_response frames
    sent,             \* ghost: the message lists sent to the backend this turn
    responses,        \* ghost: the backend's outcomes this turn
    tool_log,         \* ghost: one entry per tool call processed this turn
    ret,              \* what chat() returned
    stack_overflow,   \* ghost: the turn was ended by the interpreter's frame limit
    \* WakeWordDetector (core/wake_word.py)
    wake_word,        \* self.wake_word
    energy_threshold, \* self.energy_threshold
    chunks_per_window,\* int(window_seconds * sample_rate / chunk_size)
    ww_pc,            \* where listen_for_wake_word() is: idle, listening, returned, raised
    timeout,          \* the timeout argument: {} for None, {t} for t seconds
    elapsed,          \* time.monotonic() - start_time
    window_frames,    \* the local frame buffer of listen_for_wake_word
    stream_open,      \* the PyAudio input stream is open
    ww_ret,           \* what listen_for_wake_word returned: {} before it returns
    evals,            \* ghost: one entry per call of _process_window
    \* Listener (core/listener.py) and transcribe of main.py
    silence_threshold,\* self.silence_threshold
    silence_chunks_needed, \* int(silence_duration * sample_rate / chunk_size)
    max_chunks,       \* int(max_recording_duration * sample_rate / chunk_size)
    lis_pc,           \* where listen_once() is: idle, recording, recorded, returned, raised
    frames,           \* the local frame list of record_audio: the RMS of each frame
    silent_chunks,    \* the local counter of record_audio
    lis_stream_open,  \* the PyAudio input stream of record_audio is open
    tr_log,           \* ghost: the outcome of every transcribe call, in order
    \* SpeakerVerifier (core/speaker_verify.py)
    profile_file,     \* the file at self.profile_path: {} when absent, {array} otherwise
    threshold_arg,    \* ghost: the constructor's threshold argument, {} for None
    threshold,        \* self.threshold, in hundredths
    owner_embedding,  \* self._owner_embedding: {} for None, {vector} otherwise
    sv_calls,         \* ghost: number of verify calls made
    sv_out,           \* ghost: outcome of the last verify call
    \* a caller of ConversationMemory.get_history
    snapshot,         \* the list the caller holds: {} before any get_history call
    snap_calls,       \* ghost: number of operations of the snapshot scenario
    \* run() of main.py
    cfg_verify,       \* voice.speaker_verification of the settings
    do_verify,        \* do_verify after the set-up of lines 552-571
    shutdown,         \* _shutdown
    orch_pc,          \* the statement run() executes next, or "exited"
    exit_cause,       \* ghost: why run() left its loop
    iteration,        \* ghost: number of loop iterations started
    conversation_history, \* conversation_history
    command,          \* command_pcm and command_text of the running iteration
    it,               \* ghost: what the running iteration has done so far
    pa_terminated,    \* pa.terminate() was called
    mr_stream_open,   \* a stream opened by record_audio was left open
    \* a caller of _cosine_similarity (core/speaker_verify.py)
    cos_a,            \* the first vector
    cos_b,            \* the second vector
    cos_out           \* ghost: the results of the calls made with them

memVars == <<history, max_messages, added>>
regVars == <<skills, exec_out>>
engVars == <<registry_attached, pc, messages, depth, sent, responses, tool_log,
             ret, stack_overflow>>
wakeVars == <<wake_word, energy_threshold, chunks_per_window, ww_pc, timeout,
              elapsed, window_frames, stream_open, ww_ret, evals>>
lisVars == <<silence_threshold, silence_chunks_needed, max_chunks, lis_pc, frames,
             silent_chunks, lis_stream_open, tr_log>>
svVars == <<profile_file, threshold_arg, threshold, owner_embedding, sv_calls, sv_out>>
voiceVars == <<wakeVars, lisVars, svVars>>
snapVars == <<snapshot, snap_calls>>
orchVars == <<cfg_verify, do_verify, shutdown, orch_pc, exit_cause, iteration,
              conversation_history, command, it, pa_terminated, mr_stream_open>>
cosVars == <<cos_a, cos_b, cos_out>>
appVars == <<snapVars, orchVars, cosVars>>
vars == <<memVars, regVars, engVars, voiceVars, appVars>>

----------------------------------------------------------------------------
(* Bounds of the model *)

\* largest max_messages a memory is constructed with
MaxMessages == 2
\* number of add_message calls followed in the memory specification
MaxAdds == 4
\* number of nested _process_response frames the interpreter allows
RecursionLimit == 2
\* largest number of tool calls in one backend response
MaxToolCalls == 2

----------------------------------------------------------------------------
(* Python values *)

None == <<"<None>">>

Str(s) == <<s>>

Min(a, b) == IF a < b THEN a ELSE b

Max(a, b) == IF a > b THEN a ELSE b

\* s[start:] with Python's treatment of a negative start (and of -0 = 0)
PySliceFrom(s, start) ==
    LET from == IF start < 0 THEN Max(Len(s) + start, 0) ELSE Min(start, Len(s))
    IN  SubSeq(s, from + 1, Len(s))

\* t in s, for a fragment t
Contains(s, t) == \E i \in 1..Len(s) : s[i] = t

----------------------------------------------------------------------------
(* core/memory.py *)

Message(role, content) == [role |-> role, content |-> content]

trim_history(h, n) == IF Len(h) > n THEN PySliceFrom(h, -n) ELSE h

add_message(h, n, role, content) == trim_history(Append(h, Message(role, content)), n)

get_history(h) == h

----------------------------------------------------------------------------
(* core/skill_registry.py *)

\* A skill callable: the keyword arguments it takes (all required), and what
\* its body does: return `out`, or raise an exception of class `exc_class`
\* whose message is `out`.
Handler(params, exc_class, out) ==
    [params |-> params, exc_class |-> exc_class, out |-> out]

get_time == Handler({}, "", Str("It is 12:00 PM."))

get_weather == Handler({"location"}, "", <<"It's sunny in ", "London", ", sir.">>)

failing_skill == Handler({}, "RuntimeError", Str("connection to 10.0.0.7 refused"))

Handlers == {get_time, get_weather, failing_skill}

SkillNames == {"get_time", "get_weather"}

UnregisteredName == "nonexistent_skill"

\* a parameters argument: None, or a JSON-schema object with these properties
NoSchema == [type |-> "none", properties |-> {}]

Schema(props) == [type |-> "object", properties |-> props]

\* the classes `except Exception` catches
ExceptionClasses == {"Exception", "TypeError", "RuntimeError", "KeyError"}

\* func(**kwargs): Python binds the keyword arguments before the body runs
CallHandler(func, kwargs) ==
    IF kwargs # func.params
    THEN [raised |-> TRUE, exc_class |-> "TypeError", ran |-> FALSE,
          value |-> <<"got an unexpected keyword argument or misses one">>]
    ELSE IF func.exc_class # ""
    THEN [raised |-> TRUE, exc_class |-> func.exc_class, ran |-> TRUE,
          value |-> func.out]
    ELSE [raised |-> FALSE, exc_class |-> "", ran |-> TRUE, value |-> func.out]

\* position of `name` in the ordered dict, 0 when absent (dict.get gives None)
IndexOf(sk, name) ==
    IF \E i \in 1..Len(sk) : sk[i].name = name
    THEN CHOOSE i \in 1..Len(sk) : sk[i].name = name
    ELSE 0

register_KeepsEarlier(sk, name, func, description, parameters) ==
    Append(sk, [name |-> name, func |-> func, description |-> description,
                parameters |-> IF parameters = NoSchema \/ parameters = Schema({})
                               THEN Schema({}) ELSE parameters])

register(sk, name, func, description, parameters) ==
    LET entry == [name |-> name, func |-> func, description |-> description,
                  parameters |-> IF parameters = NoSchema \/ parameters = Schema({})
                                 THEN Schema({}) ELSE parameters]
        i == IndexOf(sk, name)
    IN  IF i # 0 THEN [sk EXCEPT ![i] = entry] ELSE Append(sk, entry)

list_skills(sk) ==
    [i \in 1..Len(sk) |->
        [type |-> "function",
         function |-> [name |-> sk[i].name, description |-> sk[i].description,
                       parameters |-> sk[i].parameters]]]

\* lines 143-147: the reply for a name that is not registered
UnknownSkillReply_KeyError(sk, name) ==
    [raised |-> TRUE, ret |-> Str("KeyError"), invoked |-> <<>>, skills |-> sk]

UnknownSkillReply(sk, name) ==
    [raised |-> FALSE, ret |-> <<"Unknown skill", ": '", name, "'">>,
     invoked |-> <<>>, skills |-> sk]

\* line 154: the message that is logged
ExecuteErrorLog(name, exc) == <<"Skill '", name, "' raised an error: ">> \o exc

ExecuteErrorReply_LeaksException(name, exc) == ExecuteErrorLog(name, exc)

\* line 156: the reply when the handler raised
ExecuteErrorReply(name, exc) ==
    <<"I encountered an error while executing '", name, "', sir.">>

\* execute(name, **kwargs): what it returns (or that it raised), the handlers
\* whose body ran, and the registry afterwards
execute(sk, name, kwargs) ==
    LET i == IndexOf(sk, name)
    IN  IF i = 0 THEN UnknownSkillReply(sk, name)
        ELSE LET r == CallHandler(sk[i].func, kwargs)
                 inv == IF r.ran THEN <<name>> ELSE <<>>
             IN  IF ~r.raised
                 THEN [raised |-> FALSE, ret |-> r.value, invoked |-> inv, skills |-> sk]
                 ELSE IF r.exc_class \in ExceptionClasses
                 THEN [raised |-> FALSE, ret |-> ExecuteErrorReply(name, r.value),
                       invoked |-> inv, skills |-> sk]
                 ELSE [raised |-> TRUE, ret |-> r.value, invoked |-> inv, skills |-> sk]

----------------------------------------------------------------------------
(* core/ai_engine.py: tool execution *)

\* the argument strings a tool call carries ("" also stands for None)
ArgStrings ==
    {"", "{}", "{\"location\": \"London\"}", "{\"bad\": 1}", "{\"name\": \"x\"}",
     "not-valid-json{{{", "[1]", "5", "\"s\"", "null"}

JsonObject(keys) == [ok |-> TRUE, type |-> "object", keys |-> keys]

JsonValue(type) == [ok |-> TRUE, type |-> type, keys |-> {}]

JSONDecodeError == [ok |-> FALSE, type |-> "", keys |-> {}]

\* json.loads on the strings of ArgStrings
json_loads(s) ==
    CASE s = "{}" -> JsonObject({})
      [] s = "{\"location\": \"London\"}" -> JsonObject({"location"})
      [] s = "{\"bad\": 1}" -> JsonObject({"bad"})
      [] s = "{\"name\": \"x\"}" -> JsonObject({"name"})
      [] s = "[1]" -> JsonValue("array")
      [] s = "5" -> JsonValue("number")
      [] s = "\"s\"" -> JsonValue("string")
      [] s = "null" -> JsonValue("null")
      [] OTHER -> JSONDecodeError

\* lines 221-225 without the except clause
LoadKwargs_NoExcept(arguments_json) ==
    IF arguments_json = "" THEN [raised |-> FALSE, value |-> JsonObject({})]
    ELSE LET v == json_loads(arguments_json)
         IN  IF v.ok THEN [raised |-> FALSE, value |-> v]
             ELSE [raised |-> TRUE, value |-> v]

\* lines 221-225: kwargs = json.loads(arguments_json) if arguments_json else {},
\* and {} when json.loads raises JSONDecodeError
LoadKwargs(arguments_json) ==
    IF arguments_json = "" THEN [raised |-> FALSE, value |-> JsonObject({})]
    ELSE LET v == json_loads(arguments_json)
         IN  IF v.ok THEN [raised |-> FALSE, value |-> v]
             ELSE [raised |-> FALSE, value |-> JsonObject({})]

\* the parameters of SkillRegistry.execute itself: a keyword of the same name
\* is a TypeError at the call
ExecuteOwnParams == {"self", "name"}

\* _execute_tool(name, arguments_json): whether it raised, the string it
\* returned, whether SkillRegistry.execute was entered and with which kwargs
_execute_tool(attached, sk, name, arguments_json) ==
    IF ~attached
    THEN [raised |-> FALSE, dispatched |-> FALSE, kwargs |-> {}, invoked |-> <<>>,
          result |-> <<"No skill registry available to execute '", name, "'.">>]
    ELSE LET k == LoadKwargs(arguments_json)
         IN  IF k.raised
             THEN [raised |-> TRUE, dispatched |-> FALSE, kwargs |-> {},
                   invoked |-> <<>>, result |-> Str("JSONDecodeError")]
             ELSE IF k.value.type # "object"
             THEN [raised |-> TRUE, dispatched |-> FALSE, kwargs |-> {}, invoked |-> <<>>,
                   result |-> Str("TypeError: argument after ** must be a mapping")]
             ELSE IF k.value.keys \cap ExecuteOwnParams # {}
             THEN [raised |-> TRUE, dispatched |-> FALSE, kwargs |-> k.value.keys,
                   invoked |-> <<>>,
                   result |-> Str("TypeError: execute() got multiple values for argument")]
             ELSE LET r == execute(sk, name, k.value.keys)
                  IN  [raised |-> r.raised, dispatched |-> TRUE, kwargs |-> k.value.keys,
                       invoked |-> r.invoked, result |-> r.ret]

----------------------------------------------------------------------------
(* core/ai_engine.py: the conversation loop *)

system_prompt == Str("You are MARS.")

FirstCallApology ==
    Str("I'm sorry, sir - I encountered an error reaching the AI service.")

FollowUpApology == Str("I encountered an issue processing the tool result, sir.")

\* lines 124-126: what chat returns when the first backend call raised `exc`
FirstCallErrorReply(exc) == FirstCallApology

\* lines 204-206: what _process_response returns when the follow-up raised `exc`
FollowUpErrorReply_SameApology(exc) == FirstCallApology

FollowUpErrorReply(exc) == FollowUpApology

\* line 240: [system_message] + self.memory.get_history()
_build_messages_NoSystemPrompt(h) == get_history(h)

_build_messages(h) == <<Message("system", system_prompt)>> \o get_history(h)

\* lines 142-144
_build_tools(attached, sk) == IF ~attached THEN <<>> ELSE list_skills(sk)

\* line 175: message.content or ""
FinalReply(content) == IF content = None \/ content = <<>> THEN <<>> ELSE content

\* line 178 with the tool calls left out of the dumped message
AssistantToolCallMessage_NoToolCalls(msg) ==
    [role |-> "assistant", content |-> msg.content]

\* line 178: message.model_dump(exclude_unset=True)
AssistantToolCallMessage(msg) ==
    [role |-> "assistant", content |-> msg.content, tool_calls |-> msg.tool_calls]

\* lines 186-192 with the skill's name in place of the call's id
ToolMessage_NameAsId(tool_call, result) ==
    [role |-> "tool", tool_call_id |-> tool_call.function.name, content |-> result]

\* lines 186-192
ToolMessage(tool_call, result) ==
    [role |-> "tool", tool_call_id |-> tool_call.id, content |-> result]

\* lines 178 and 186: messages.append(m), with the message stored in the
\* memory as well
AppendInFlight_AlsoToMemory(h, n, msgs, m) ==
    [history |-> add_message(h, n, m.role, m.content), messages |-> Append(msgs, m)]

\* lines 178 and 186: messages.append(m) extends the in-flight list only
AppendInFlight(h, n, msgs, m) == [history |-> h, messages |-> Append(msgs, m)]

ToolLogEntry(round, tool_call, r) ==
    [round |-> round, id |-> tool_call.id, name |-> tool_call.function.name,
     arguments |-> tool_call.function.arguments, dispatched |-> r.dispatched,
     kwargs |-> r.kwargs, raised |-> r.raised, invoked |-> r.invoked,
     result |-> r.result]

\* lines 181-192: the loop over message.tool_calls from position i on; it
\* stops at the first tool call whose execution raises
RECURSIVE ToolLoop(_, _, _, _, _, _)
ToolLoop(attached, sk, round, tool_calls, i, st) ==
    IF i > Len(tool_calls) THEN st
    ELSE LET tc == tool_calls[i]
             r == _execute_tool(attached, sk, tc.function.name, tc.function.arguments)
             log == Append(st.log, ToolLogEntry(round, tc, r))
         IN  IF r.raised
             THEN [st EXCEPT !.raised = TRUE, !.log = log]
             ELSE LET a == AppendInFlight(st.history, st.max, st.messages,
                                          ToolMessage(tc, r.result))
                  IN  ToolLoop(attached, sk, round, tool_calls, i + 1,
                               [st EXCEPT !.history = a.history,
                                          !.messages = a.messages, !.log = log])

\* lines 177-192: append the assistant message, then run the tool calls
RunToolCalls(attached, sk, round, h, n, msgs, log, msg) ==
    LET a == AppendInFlight(h, n, msgs, AssistantToolCallMessage(msg))
    IN  ToolLoop(attached, sk, round, msg.tool_calls, 1,
                 [raised |-> FALSE, history |-> a.history, max |-> n,
                  messages |-> a.messages, log |-> log])

----------------------------------------------------------------------------
(* Inputs *)

Roles == {"user", "assistant"}

Contents == {Str("Hello!"), Str("Good day, sir.")}

UserInputs == {Str("What time is it?")}

KwargSets == {{}, {"location"}, {"bad"}}

Schemas == {NoSchema, Schema({}), Schema({"location"})}

\* the registry the engine is constructed with
EngineSkills ==
    register(register(<<>>, "get_time", get_time, "Return the current time.", NoSchema),
             "get_weather", failing_skill, "Get the current weather.",
             Schema({"location"}))

ToolCall(id, name, arguments) ==
    [id |-> id, function |-> [name |-> name, arguments |-> arguments]]

GoodCall == ToolCall("call_1", "get_time", "{}")

\* the tool calls a backend response is made of: a well-formed call, one with
\* undecodable arguments, one for an unregistered skill, one whose handler
\* raises, and one whose arguments are JSON but no object
ToolCallPool ==
    {GoodCall,
     ToolCall("call_2", "get_time", "not-valid-json{{{"),
     ToolCall("call_3", UnregisteredName, "{}"),
     ToolCall("call_4", "get_weather", "{\"location\": \"London\"}"),
     ToolCall("call_5", "get_time", "[1]")}

\* n well-formed calls
RECURSIVE GoodCalls(_)
GoodCalls(n) == IF n = 0 THEN <<>> ELSE Append(GoodCalls(n - 1), GoodCall)

\* the tool-call lists of a response: up to MaxToolCalls calls, the last one
\* any call of the pool
ToolCallLists ==
    {GoodCalls(n) \o <<tc>> : n \in 0..(MaxToolCalls - 1), tc \in ToolCallPool}

Response(content, tool_calls) == [content |-> content, tool_calls |-> tool_calls]

TextResponses == {Response(c, <<>>) : c \in {None, Str("It is 12:00 PM, sir.")}}

ToolCallResponses == {Response(None, tcs) : tcs \in ToolCallLists}

BackendError == Str("Connection refused")

----------------------------------------------------------------------------
(* State *)

NoExec ==
    [op |-> "none", name |-> "", kwargs |-> {}, arguments |-> "", raised |-> FALSE,
     dispatched |-> FALSE, ret |-> <<>>, invoked |-> <<>>, before |-> <<>>]

MemoryIdle == history = <<>> /\ max_messages = 1 /\ added = <<>>

RegistryIdle == skills = <<>> /\ exec_out = NoExec

EngineIdle ==
    /\ registry_attached = FALSE
    /\ pc = "idle"
    /\ messages = <<>>
    /\ depth = 0
    /\ sent = <<>>
    /\ responses = <<>>
    /\ tool_log = <<>>
    /\ ret = None
    /\ stack_overflow = FALSE

WakeIdle ==
    /\ wake_word = <<>>
    /\ energy_threshold = 0
    /\ chunks_per_window = 0
    /\ ww_pc = "idle"
    /\ timeout = {}
    /\ elapsed = 0
    /\ window_frames = <<>>
    /\ stream_open = FALSE
    /\ ww_ret = {}
    /\ evals = <<>>

ListenerIdle ==
    /\ silence_threshold = 0
    /\ silence_chunks_needed = 0
    /\ max_chunks = 0
    /\ lis_pc = "idle"
    /\ frames = <<>>
    /\ silent_chunks = 0
    /\ lis_stream_open = FALSE
    /\ tr_log = <<>>

NoVerify ==
    [called |-> FALSE, file_present |-> FALSE, cached |-> FALSE,
     load_called |-> FALSE, load_raised |-> FALSE, profile |-> {}, embedded |-> FALSE,
     embed_raised |-> FALSE, embedding |-> {}, similarity_raised |-> FALSE,
     similarity |-> {}, raised |-> FALSE, ret |-> {}]

VerifierIdle ==
    /\ profile_file = {}
    /\ threshold_arg = {}
    /\ threshold = 0
    /\ owner_embedding = {}
    /\ sv_calls = 0
    /\ sv_out = NoVerify

VoiceIdle == WakeIdle /\ ListenerIdle /\ VerifierIdle

SnapshotIdle ==
    /\ snapshot = {}
    /\ snap_calls = 0

NoCommand == [pcm |-> {}, text |-> <<>>]

NoIteration ==
    [wake |-> FALSE, transcribed |-> 0, transcript |-> <<>>, checked |-> {},
     verdict |-> {}, ai_calls |-> 0, ai_failed |-> FALSE, reply |-> <<>>,
     spoke |-> <<>>, history_before |-> <<>>, signalled_at |-> ""]

OrchestratorIdle ==
    /\ cfg_verify = FALSE
    /\ do_verify = FALSE
    /\ shutdown = FALSE
    /\ orch_pc = "not started"
    /\ exit_cause = ""
    /\ iteration = 0
    /\ conversation_history = <<>>
    /\ command = NoCommand
    /\ it = NoIteration
    /\ pa_terminated = FALSE
    /\ mr_stream_open = FALSE

NoCosine == [called |-> FALSE, raised |-> FALSE, value |-> {}]

CosineIdle ==
    /\ cos_a = <<>>
    /\ cos_b = <<>>
    /\ cos_out = [ab |-> NoCosine, ba |-> NoCosine]

AppIdle == SnapshotIdle /\ OrchestratorIdle /\ CosineIdle

----------------------------------------------------------------------------
(* ConversationMemory on its own *)

\* ConversationMemory(max_messages)
InitMemory ==
    /\ max_messages \in 0..MaxMessages
    /\ history = <<>>
    /\ added = <<>>
    /\ RegistryIdle
    /\ EngineIdle
    /\ VoiceIdle
    /\ AppIdle

\* memory.add_message(role, content)
AddMessage(role, content) ==
    /\ Len(added) < MaxAdds
    /\ history' = add_message(history, max_messages, role, content)
    /\ added' = Append(added, Message(role, content))
    /\ UNCHANGED <<max_messages, regVars, engVars, voiceVars, appVars>>

NextMemory == \E role \in Roles, content \in Contents : AddMessage(role, content)

SpecMemory == InitMemory /\ [][NextMemory]_vars

----------------------------------------------------------------------------
(* SkillRegistry on its own, with AIEngine._execute_tool in front of it *)

\* SkillRegistry()
InitRegistry ==
    /\ skills = <<>>
    /\ exec_out = NoExec
    /\ MemoryIdle
    /\ EngineIdle
    /\ VoiceIdle
    /\ AppIdle

\* registry.register(name, func, description, parameters)
Register(name, func, parameters) ==
    /\ skills' = register(skills, name, func, "A skill.", parameters)
    /\ exec_out' = [NoExec EXCEPT !.op = "register", !.name = name, !.before = skills]
    /\ UNCHANGED <<memVars, engVars, voiceVars, appVars>>

\* registry.execute(name, **kwargs)
Execute(name, kwargs) ==
    LET r == execute(skills, name, kwargs)
    IN  /\ skills' = r.skills
        /\ exec_out' = [op |-> "execute", name |-> name, kwargs |-> kwargs,
                        arguments |-> "", raised |-> r.raised, dispatched |-> TRUE,
                        ret |-> r.ret, invoked |-> r.invoked, before |-> skills]
        /\ UNCHANGED <<memVars, engVars, voiceVars, appVars>>

\* engine._execute_tool(name, arguments_json) of an engine holding this registry
ExecuteTool(name, arguments_json) ==
    LET r == _execute_tool(TRUE, skills, name, arguments_json)
    IN  /\ exec_out' = [op |-> "execute_tool", name |-> name, kwargs |-> r.kwargs,
                        arguments |-> arguments_json, raised |-> r.raised,
                        dispatched |-> r.dispatched, ret |-> r.result,
                        invoked |-> r.invoked, before |-> skills]
        /\ UNCHANGED <<skills, memVars, engVars, voiceVars, appVars>>

NextRegistry ==
    \/ \E name \in SkillNames, func \in Handlers, parameters \in Schemas :
          Register(name, func, parameters)
    \/ \E name \in SkillNames \cup {UnregisteredName}, kwargs \in KwargSets :
          Execute(name, kwargs)
    \/ \E name \in SkillNames \cup {UnregisteredName}, a \in ArgStrings :
          ExecuteTool(name, a)

SpecRegistry == InitRegistry /\ [][NextRegistry]_vars

----------------------------------------------------------------------------
(* AIEngine: chat() against a backend that answers each call as it likes *)

\* AIEngine(skill_registry, max_history): max_history or the configured
\* default is never 0
InitEngine ==
    /\ max_messages \in 1..MaxMessages
    /\ history = <<>>
    /\ added = <<>>
    /\ registry_attached \in BOOLEAN
    /\ skills = IF registry_attached THEN EngineSkills ELSE <<>>
    /\ exec_out = NoExec
    /\ pc = "idle"
    /\ messages = <<>>
    /\ depth = 0
    /\ sent = <<>>
    /\ responses = <<>>
    /\ tool_log = <<>>
    /\ ret = None
    /\ stack_overflow = FALSE
    /\ VoiceIdle
    /\ AppIdle

\* lines 128-130 (and 203-206 on the way up): _process_response has produced
\* `reply`; chat stores it in the memory and returns it
ReturnReply(reply, overflow) ==
    /\ history' = add_message(history, max_messages, "assistant", reply)
    /\ ret' = reply
    /\ pc' = "returned"
    /\ messages' = <<>>
    /\ depth' = 0
    /\ stack_overflow' = overflow
    /\ UNCHANGED <<sent, tool_log>>

\* chat(user_input), lines 109-123, up to the first backend call
Chat(user_input) ==
    /\ pc # "await"
    /\ LET h == add_message(history, max_messages, "user", user_input)
           m == _build_messages(h)
       IN  /\ history' = h
           /\ messages' = m
           /\ sent' = <<m>>
    /\ pc' = "await"
    /\ depth' = 0
    /\ responses' = <<>>
    /\ tool_log' = <<>>
    /\ ret' = None
    /\ stack_overflow' = FALSE
    /\ UNCHANGED <<max_messages, added, regVars, registry_attached, voiceVars, appVars>>

\* the backend call raises: lines 124-126 for the first call of the turn,
\* lines 204-206 (then 129-130) for a follow-up call
BackendRaises ==
    /\ pc = "await"
    /\ responses' = Append(responses, [error |-> BackendError])
    /\ IF depth = 0
       THEN /\ ret' = FirstCallErrorReply(BackendError)
            /\ pc' = "returned"
            /\ messages' = <<>>
            /\ UNCHANGED <<history, depth, sent, tool_log, stack_overflow>>
       ELSE ReturnReply(FollowUpErrorReply(BackendError), FALSE)
    /\ UNCHANGED <<max_messages, added, regVars, registry_attached, voiceVars, appVars>>

\* the backend answers while RecursionLimit frames of _process_response are
\* active: the call at line 203 raises RecursionError inside the try of the
\* frame below, before the answer is looked at, and that frame's except clause
\* (lines 204-206) turns it into the apology
StackExhausted ==
    /\ pc = "await"
    /\ depth >= RecursionLimit
    /\ responses' = Append(responses, [unread |-> TRUE])
    /\ ReturnReply(FollowUpErrorReply(Str("RecursionError")), TRUE)
    /\ UNCHANGED <<max_messages, added, regVars, registry_attached, voiceVars, appVars>>

\* the backend answers without tool calls: lines 170-175, then 129-130
BackendReturnsText(resp) ==
    /\ pc = "await"
    /\ depth < RecursionLimit
    /\ resp.tool_calls = <<>>
    /\ responses' = Append(responses, resp)
    /\ ReturnReply(FinalReply(resp.content), FALSE)
    /\ UNCHANGED <<max_messages, added, regVars, registry_attached, voiceVars, appVars>>

\* the backend answers with tool calls: lines 177-203.  The tools run; if one
\* raises in the first frame (called from chat, outside any try) the exception
\* leaves chat, in a deeper frame the caller's except clause catches it;
\* otherwise the follow-up call is made with the extended list
BackendReturnsToolCalls(resp) ==
    /\ pc = "await"
    /\ depth < RecursionLimit
    /\ resp.tool_calls # <<>>
    /\ responses' = Append(responses, resp)
    /\ LET out == RunToolCalls(registry_attached, skills, depth + 1, history,
                               max_messages, messages, tool_log, resp)
       IN  IF out.raised /\ depth = 0
           THEN /\ pc' = "raised"
                /\ history' = out.history
                /\ tool_log' = out.log
                /\ messages' = <<>>
                /\ UNCHANGED <<depth, sent, ret, stack_overflow>>
           ELSE IF out.raised
           THEN /\ history' = add_message(out.history, max_messages, "assistant",
                                          FollowUpErrorReply(Str("TypeError")))
                /\ ret' = FollowUpErrorReply(Str("TypeError"))
                /\ pc' = "returned"
                /\ tool_log' = out.log
                /\ messages' = <<>>
                /\ depth' = 0
                /\ UNCHANGED <<sent, stack_overflow>>
           ELSE /\ history' = out.history
                /\ messages' = out.messages
                /\ sent' = Append(sent, out.messages)
                /\ tool_log' = out.log
                /\ depth' = depth + 1
                /\ UNCHANGED <<pc, ret, stack_overflow>>
    /\ UNCHANGED <<max_messages, added, regVars, registry_attached, voiceVars, appVars>>

NextEngine ==
    \/ \E user_input \in UserInputs : Chat(user_input)
    \/ BackendRaises
    \/ StackExhausted
    \/ \E resp \in TextResponses : BackendReturnsText(resp)
    \/ \E resp \in ToolCallResponses : BackendReturnsToolCalls(resp)

Spec == InitEngine /\ [][NextEngine]_vars

----------------------------------------------------------------------------
(* Properties *)

IsError(r) == "error" \in DOMAIN r

IsAnswer(r) == "tool_calls" \in DOMAIN r

IsToolMessage(m) == m.role = "tool"

CarriesToolCalls(m) == "tool_calls" \in DOMAIN m

ToolMessagesOf(list) == SelectSeq(list, IsToolMessage)

\* C1: for every max_messages a ConversationMemory is constructed with (0 and
\* 1 included), after any sequence of add_message calls the history holds at
\* most max_messages entries, and they are the most recently added ones in
\* insertion order.
C1_HistoryBoundedAndRecent ==
    /\ Len(history) <= max_messages
    /\ Len(history) = Min(Len(added), max_messages)
    /\ history = SubSeq(added, Len(added) - Len(history) + 1, Len(added))

\* C2: a chat turn ends after a number of tool-call rounds that the engine
\* itself bounds: it is never the interpreter's frame limit that stops a
\* backend answering every call with tool calls.
C2_EngineBoundsToolRounds == ~stack_overflow

\* the case C3 is about: the first answer of the turn carries one tool call,
\* the second is plain text
C3_Case ==
    /\ Len(responses) >= 2
    /\ IsAnswer(responses[1]) /\ Len(responses[1].tool_calls) = 1
    /\ IsAnswer(responses[2]) /\ responses[2].tool_calls = <<>>
    /\ responses[2].content # None

\* C3: when the first backend response of a turn holds one tool call and the
\* second is plain text, chat makes exactly two backend calls, the second
\* call's message list holds exactly one tool message, whose tool_call_id is
\* the id of that tool call, and chat returns the second response's text.
C3_OneToolCallThenText ==
    C3_Case =>
        /\ pc = "returned"
        /\ Len(sent) = 2 /\ Len(responses) = 2
        /\ Len(ToolMessagesOf(sent[2])) = 1
        /\ ToolMessagesOf(sent[2])[1].tool_call_id = responses[1].tool_calls[1].id
        /\ ret = responses[2].content

C3_Witness == C3_Case /\ pc = "returned" /\ ret = Str("It is 12:00 PM, sir.")

\* C4: chat always returns a string and never raises, whatever the backend
\* answers: every tool call (JSON arguments that are no object, an unregistered
\* skill, a handler that raises) yields a tool-result string and the turn
\* goes on.
C4_ChatNeverRaises ==
    /\ pc # "raised"
    /\ \A i \in 1..Len(tool_log) : ~tool_log[i].raised

NotDecodable(arguments) == arguments # "" /\ ~json_loads(arguments).ok

RoundRaised(round) ==
    \E j \in 1..Len(tool_log) : tool_log[j].round = round /\ tool_log[j].raised

\* C5: a tool call whose argument string is not JSON-decodable does not abort
\* the turn: with a registry attached the skill is dispatched through
\* SkillRegistry.execute with an empty argument map, a tool message with the
\* call's id (and the result) is appended, and, no other call of the response
\* raising, the follow-up backend call is made with it.
C5_UndecodableArgumentsDegrade ==
    \A i \in 1..Len(tool_log) :
        LET e == tool_log[i]
        IN  NotDecodable(e.arguments) =>
                /\ ~e.raised
                /\ registry_attached => e.dispatched /\ e.kwargs = {}
                /\ ~RoundRaised(e.round) =>
                      /\ Len(sent) >= e.round + 1
                      /\ \E j \in 1..Len(sent[e.round + 1]) :
                            sent[e.round + 1][j] =
                                [role |-> "tool", tool_call_id |-> e.id,
                                 content |-> e.result]

C5_Witness ==
    /\ registry_attached
    /\ \E i \in 1..Len(tool_log) :
          /\ NotDecodable(tool_log[i].arguments)
          /\ tool_log[i].dispatched
          /\ tool_log[i].invoked = <<"get_time">>
          /\ Len(sent) = tool_log[i].round + 1

\* C6: a backend error on the first call of a turn makes chat return the
\* 'error reaching the AI service' apology, a backend error on a follow-up call
\* makes it return the distinct 'issue processing the tool result' apology, and
\* in neither case does the exception or its text reach the caller.
C6_BackendErrorApologies ==
    \A k \in 1..Len(responses) :
        IsError(responses[k]) =>
            /\ pc = "returned"
            /\ k = Len(responses)
            /\ k = 1 =>
                 ret = Str("I'm sorry, sir - I encountered an error reaching the AI service.")
            /\ k > 1 =>
                 ret = Str("I encountered an issue processing the tool result, sir.")
            /\ \A j \in 1..Len(responses[k].error) : ~Contains(ret, responses[k].error[j])

C6_Witness ==
    /\ pc = "returned"
    /\ Len(responses) = 2
    /\ IsError(responses[2])
    /\ ret = FollowUpApology
    /\ ret # FirstCallApology

Registered(sk, name) == \E i \in 1..Len(sk) : sk[i].name = name

\* C7: SkillRegistry.execute with a name that is not registered returns a
\* string containing 'Unknown skill', does not raise, invokes no handler and
\* leaves the registry unchanged.
C7_UnknownSkill ==
    (exec_out.op = "execute" /\ ~Registered(exec_out.before, exec_out.name)) =>
        /\ ~exec_out.raised
        /\ Contains(exec_out.ret, "Unknown skill")
        /\ exec_out.invoked = <<>>
        /\ skills = exec_out.before

C7_Witness ==
    /\ exec_out.op = "execute"
    /\ exec_out.name = UnregisteredName
    /\ Len(exec_out.before) = 2
    /\ Contains(exec_out.ret, UnregisteredName)

\* the handler registered under the name of the last execute() raises when it
\* is called with that call's keyword arguments
C8_Case ==
    /\ exec_out.op = "execute"
    /\ \E i \in 1..Len(exec_out.before) :
          LET e == exec_out.before[i]
          IN  /\ e.name = exec_out.name
              /\ e.func.exc_class # "" \/ exec_out.kwargs # e.func.params

\* C8: when a registered skill's handler raises (a TypeError for keyword
\* arguments it does not take included), SkillRegistry.execute returns the
\* fixed apology naming the skill; the exception does not propagate and its
\* message is no part of the returned string.
C8_HandlerErrorApology ==
    C8_Case =>
        /\ ~exec_out.raised
        /\ exec_out.ret =
              <<"I encountered an error while executing '", exec_out.name, "', sir.">>
        /\ \A h \in Handlers : \A j \in 1..Len(h.out) : ~Contains(exec_out.ret, h.out[j])

C8_Witness ==
    /\ C8_Case
    /\ exec_out.kwargs = {"bad"}
    /\ \E i \in 1..Len(exec_out.before) :
          exec_out.before[i].name = exec_out.name /\ exec_out.before[i].func = get_time

\* position of the last message of `list` that carries tool calls, 0 if none
LastToolCallMessage(list) ==
    IF \E i \in 1..Len(list) : CarriesToolCalls(list[i])
    THEN CHOOSE i \in 1..Len(list) :
            /\ CarriesToolCalls(list[i])
            /\ \A j \in (i + 1)..Len(list) : ~CarriesToolCalls(list[j])
    ELSE 0

\* C9: in every message list sent to the backend each tool message is preceded
\* by the assistant message that carried its tool-call id, and a follow-up list
\* ends with exactly one tool message per tool call of its last assistant
\* tool-call message, in the order of the calls, each with its call's id.
C9_ToolMessagesFollowTheirCalls ==
    \A k \in 1..Len(sent) :
        LET list == sent[k]
            a == LastToolCallMessage(list)
        IN  /\ \A j \in 1..Len(list) :
                  IsToolMessage(list[j]) =>
                      \E i \in 1..(j - 1) :
                          /\ list[i].role = "assistant"
                          /\ CarriesToolCalls(list[i])
                          /\ \E c \in 1..Len(list[i].tool_calls) :
                                list[i].tool_calls[c].id = list[j].tool_call_id
            /\ k = 1 => ToolMessagesOf(list) = <<>>
            /\ k > 1 =>
                  /\ a # 0
                  /\ Len(list) - a = Len(list[a].tool_calls)
                  /\ \A c \in 1..Len(list[a].tool_calls) :
                        /\ IsToolMessage(list[a + c])
                        /\ list[a + c].tool_call_id = list[a].tool_calls[c].id
                  /\ Len(ToolMessagesOf(list)) + (k - 1) + Len(sent[1]) = Len(list)

C9_Witness ==
    /\ Len(sent) = 3
    /\ Len(ToolMessagesOf(sent[3])) = 3
    /\ ToolMessagesOf(sent[3])[2].tool_call_id # ToolMessagesOf(sent[3])[3].tool_call_id

\* C10: the assistant tool-call message and the tool-result messages of a turn
\* go to the in-flight list only: at all times the memory holds nothing but
\* the user turns and the assistant replies that chat added, never a tool
\* message nor an assistant message carrying tool calls.
C10_MemoryHoldsOnlyTurns ==
    \A i \in 1..Len(history) :
        /\ DOMAIN history[i] = {"role", "content"}
        /\ history[i].role \in {"user", "assistant"}
        /\ history[i].role = "user" => history[i].content \in UserInputs
        /\ history[i].role = "assistant" =>
              \/ history[i].content = FollowUpApology
              \/ \E r \in TextResponses : history[i].content = FinalReply(r.content)

C10_Witness ==
    /\ pc = "returned"
    /\ Len(tool_log) >= 2
    /\ Len(history) = 2
    /\ history[2] = Message("assistant", Str("It is 12:00 PM, sir."))

\* C11: every message list sent to the backend starts with the system-prompt
\* message and holds no other system message; the first list of a turn is
\* that message followed by the memory history, and every later list of the
\* turn keeps the first list as its prefix; the memory itself never holds a
\* system message, so trimming cannot remove it, whatever max_messages is.
SystemMessagesOf(msgs) == SelectSeq(msgs, LAMBDA m : m.role = "system")

C11_SystemPromptLeadsEveryRequest ==
    /\ \A k \in 1..Len(sent) :
          /\ Len(sent[k]) >= 1
          /\ sent[k][1] = Message("system", system_prompt)
          /\ Len(SystemMessagesOf(sent[k])) = 1
          /\ SubSeq(sent[k], 1, Len(sent[1])) = sent[1]
    /\ (pc = "await" /\ Len(sent) = 1) => sent[1] = <<Message("system", system_prompt)>> \o history
    /\ \A i \in 1..Len(history) : history[i].role # "system"

\* A request built after trimming dropped the oldest turn: the list is the
\* system prompt, then an assistant reply, then the new user message.
C11_Witness ==
    /\ pc = "await"
    /\ Len(sent) = 1
    /\ max_messages = 2
    /\ Len(sent[1]) = 3
    /\ sent[1][1].role = "system"
    /\ sent[1][2].role = "assistant"
    /\ sent[1][3].role = "user"

----------------------------------------------------------------------------
(* core/wake_word.py: WakeWordDetector *)
(*                                                                         *)
(* A transcript or a wake phrase is a sequence of one-character strings.   *)
(* An optional argument is a set: {} for None, {v} for the value v.  An    *)
(* audio frame is a record of its read number n and its RMS; all frames    *)
(* have chunk_size samples, so the mean square of a window is the mean of  *)
(* the squares of its frames' RMS.                                         *)

MaxReads == 4
MaxChunksPerWindow == 3
MaxTimeout == 2

\* line 81: audio_cfg.get("silence_threshold", 500)
DefaultEnergyThreshold == 500

\* str.lower() on the characters that occur
ToLowerChar(c) ==
    CASE c = "M" -> "m"
      [] c = "A" -> "a"
      [] c = "R" -> "r"
      [] c = "S" -> "s"
      [] OTHER -> c

lower(s) == [i \in 1..Len(s) |-> ToLowerChar(s[i])]

Whitespace == {" "}

\* str.strip()
strip(s) ==
    LET keep == {i \in 1..Len(s) : s[i] \notin Whitespace}
    IN  IF keep = {} THEN <<>>
        ELSE SubSeq(s, CHOOSE i \in keep : \A j \in keep : i <= j,
                       CHOOSE i \in keep : \A j \in keep : i >= j)

\* t in s, for strings
IsSubstring(t, s) ==
    \E i \in 0..(Len(s) - Len(t)) : SubSeq(s, i + 1, i + Len(t)) = t

\* lines 75-77: (wake_word or default).lower().strip()
NormalizeWakeWord(arg) == strip(lower(arg))

\* lines 80-82: energy_threshold or the configured silence_threshold
EnergyThresholdOf(arg) ==
    IF arg = {} \/ arg = {0} THEN DefaultEnergyThreshold ELSE CHOOSE v \in arg : TRUE

RECURSIVE SumSquares(_)
SumSquares(window) ==
    IF window = <<>> THEN 0
    ELSE Head(window).rms * Head(window).rms + SumSquares(Tail(window))

\* lines 166-171: rms < self.energy_threshold, with rms the root of the mean
\* square of the joined frames; both sides are non-negative, so the squares
\* compare the same way
BelowEnergyThreshold_NeverSilent(window, floor) == FALSE

BelowEnergyThreshold(window, floor) ==
    SumSquares(window) < floor * floor * Len(window)

\* what self._whisper_model.transcribe does with a window: it raises, or it
\* returns a dict that may hold a "text"
TranscribeRaises == [raises |-> TRUE, text |-> {}]

TranscribeResult(text) == [raises |-> FALSE, text |-> text]

\* line 182: result.get("text", "")
GetText(result) == IF result.text = {} THEN <<>> ELSE CHOOSE t \in result.text : TRUE

\* line 182: .lower().strip()
NormalizeTranscript_CaseSensitive(text) == strip(text)

NormalizeTranscript(text) == strip(lower(text))

\* lines 185-187: except Exception: return False
TranscribeErrorVerdict_Raises == [raised |-> TRUE, detected |-> FALSE]

TranscribeErrorVerdict == [raised |-> FALSE, detected |-> FALSE]

\* lines 161-187: the verdict on one window; `backend` is what the
\* transcription backend would do with it
_process_window(window, ww, floor, backend) ==
    IF BelowEnergyThreshold(window, floor)
    THEN [transcribed |-> FALSE, error |-> FALSE, transcript |-> <<>>,
          raised |-> FALSE, detected |-> FALSE]
    ELSE IF backend.raises
    THEN [transcribed |-> TRUE, error |-> TRUE, transcript |-> <<>>,
          raised |-> TranscribeErrorVerdict.raised,
          detected |-> TranscribeErrorVerdict.detected]
    ELSE LET transcript == NormalizeTranscript(GetText(backend))
         IN  [transcribed |-> TRUE, error |-> FALSE, transcript |-> transcript,
              raised |-> FALSE, detected |-> IsSubstring(ww, transcript)]

\* line 152: window_frames[chunks_per_window // 2 :]
SlideWindow(window, cpw) == PySliceFrom(window, cpw \div 2)

\* line 139: timeout is not None and (time.monotonic() - start_time) > timeout
TimeoutExpired(t, now) == \E s \in t : now > s

\* what the microphone and the backend may hand to the detector
FrameRms == {0, 1000}

WakeWordArgs == {<<" ", "M", "a", "r", "s">>}

EnergyThresholdArgs == {{}, {0}, {800}}

Timeouts == {{}} \cup {{t} : t \in 0..MaxTimeout}

Transcriptions ==
    {TranscribeRaises,
     TranscribeResult({}),
     TranscribeResult({<<" ", "M", "A", "R", "S", "!">>}),
     TranscribeResult({<<"M", "a", "r", " ", "s">>})}

MemoryAndEngineIdle == MemoryIdle /\ RegistryIdle /\ EngineIdle

\* WakeWordDetector(wake_word, energy_threshold, window_seconds)
InitWake ==
    /\ wake_word \in {NormalizeWakeWord(a) : a \in WakeWordArgs}
    /\ energy_threshold \in {EnergyThresholdOf(a) : a \in EnergyThresholdArgs}
    /\ chunks_per_window \in 1..MaxChunksPerWindow
    /\ ww_pc = "idle"
    /\ timeout = {}
    /\ elapsed = 0
    /\ window_frames = <<>>
    /\ stream_open = FALSE
    /\ ww_ret = {}
    /\ evals = <<>>
    /\ MemoryAndEngineIdle
    /\ ListenerIdle
    /\ VerifierIdle
    /\ AppIdle

\* lines 114-137: listen_for_wake_word(timeout) opens the stream and enters
\* the loop
ListenForWakeWord(t) ==
    /\ ww_pc = "idle"
    /\ ww_pc' = "listening"
    /\ timeout' = t
    /\ elapsed' = 0
    /\ window_frames' = <<>>
    /\ stream_open' = TRUE
    /\ UNCHANGED <<wake_word, energy_threshold, chunks_per_window, ww_ret, evals>>
    /\ UNCHANGED <<memVars, regVars, engVars, lisVars, svVars, appVars>>

\* lines 114-125: the imports, the model load or pa.open raise; no stream
\* was opened
ListenSetupRaises ==
    /\ ww_pc = "idle"
    /\ ww_pc' = "raised"
    /\ UNCHANGED <<wake_word, energy_threshold, chunks_per_window, timeout,
                   elapsed, window_frames, stream_open, ww_ret, evals>>
    /\ UNCHANGED <<memVars, regVars, engVars, lisVars, svVars, appVars>>

\* lines 139-141 and 153-155: the timeout has expired at the top of the loop
WakeTimedOut ==
    /\ ww_pc = "listening"
    /\ TimeoutExpired(timeout, elapsed)
    /\ ww_pc' = "returned"
    /\ ww_ret' = {FALSE}
    /\ stream_open' = FALSE
    /\ UNCHANGED <<wake_word, energy_threshold, chunks_per_window, timeout,
                   elapsed, window_frames, evals>>
    /\ UNCHANGED <<memVars, regVars, engVars, lisVars, svVars, appVars>>

\* line 143 and 153-155: stream.read raises; the finally clause closes the
\* stream and the error leaves listen_for_wake_word
WakeReadRaises ==
    /\ ww_pc = "listening"
    /\ ~TimeoutExpired(timeout, elapsed)
    /\ ww_pc' = "raised"
    /\ stream_open' = FALSE
    /\ UNCHANGED <<wake_word, energy_threshold, chunks_per_window, timeout,
                   elapsed, window_frames, ww_ret, evals>>
    /\ UNCHANGED <<memVars, regVars, engVars, lisVars, svVars, appVars>>

\* lines 139-152: one pass of the loop that reads a frame of the given RMS;
\* the read takes one unit of time and a transcription one more
WakeIteration(rms, backend) ==
    /\ ww_pc = "listening"
    /\ ~TimeoutExpired(timeout, elapsed)
    /\ \A i \in 1..Len(window_frames) : window_frames[i].n < MaxReads
    /\ LET n == IF window_frames = <<>> /\ evals = <<>> THEN 1
                ELSE IF window_frames = <<>> THEN evals[Len(evals)].last + 1
                ELSE window_frames[Len(window_frames)].n + 1
           window == Append(window_frames, [n |-> n, rms |-> rms])
       IN  IF Len(window) >= chunks_per_window
           THEN LET v == _process_window(window, wake_word, energy_threshold, backend)
                    now == elapsed + 1 + (IF v.transcribed THEN 1 ELSE 0)
                IN  /\ elapsed' = now
                    /\ evals' = Append(evals,
                          [frames |-> window, last |-> n, transcribed |-> v.transcribed,
                           error |-> v.error,
                           text |-> IF v.transcribed /\ ~v.error
                                    THEN GetText(backend) ELSE <<>>,
                           transcript |-> v.transcript,
                           detected |-> v.detected, at |-> now])
                    /\ IF v.raised
                       THEN /\ ww_pc' = "raised"
                            /\ stream_open' = FALSE
                            /\ UNCHANGED <<window_frames, ww_ret>>
                       ELSE IF v.detected
                       THEN /\ ww_pc' = "returned"
                            /\ ww_ret' = {TRUE}
                            /\ stream_open' = FALSE
                            /\ UNCHANGED window_frames
                       ELSE /\ window_frames' = SlideWindow(window, chunks_per_window)
                            /\ UNCHANGED <<ww_pc, ww_ret, stream_open>>
           ELSE /\ window_frames' = window
                /\ elapsed' = elapsed + 1
                /\ UNCHANGED <<ww_pc, ww_ret, stream_open, evals>>
    /\ UNCHANGED <<wake_word, energy_threshold, chunks_per_window, timeout>>
    /\ UNCHANGED <<memVars, regVars, engVars, lisVars, svVars, appVars>>

NextWake ==
    \/ \E t \in Timeouts : ListenForWakeWord(t)
    \/ ListenSetupRaises
    \/ WakeTimedOut
    \/ WakeReadRaises
    \/ \E rms \in FrameRms, backend \in Transcriptions : WakeIteration(rms, backend)

SpecWake == InitWake /\ [][NextWake]_vars

----------------------------------------------------------------------------
(* Properties of WakeWordDetector *)

\* C12: every evaluated window whose aggregate RMS (the root of the mean
\* square over all its frames) is below energy_threshold was not handed to
\* the transcription backend and was not matched.
C12_SilentWindowNotTranscribed ==
    \A i \in 1..Len(evals) :
        SumSquares(evals[i].frames)
            < energy_threshold * energy_threshold * Len(evals[i].frames)
        => ~evals[i].transcribed /\ ~evals[i].detected

\* A window with a loud frame in it whose aggregate RMS is still below the
\* threshold was skipped, and a later window was transcribed.
C12_Witness ==
    /\ Len(evals) >= 2
    /\ ~evals[1].transcribed
    /\ \E j \in 1..Len(evals[1].frames) : evals[1].frames[j].rms > energy_threshold
    /\ evals[2].transcribed

\* what listen_for_wake_word has returned, against the windows evaluated
C13_Returns ==
    /\ \A i \in 1..Len(evals) :
          /\ evals[i].detected <=>
                /\ evals[i].transcribed
                /\ ~evals[i].error
                /\ IsSubstring(lower(wake_word), lower(evals[i].text))
          /\ evals[i].detected => i = Len(evals) /\ ww_pc = "returned" /\ ww_ret = {TRUE}
    /\ ww_ret = {TRUE} => evals # <<>> /\ evals[Len(evals)].detected
    /\ ww_ret = {FALSE} =>
          /\ timeout # {}
          /\ \A s \in timeout : elapsed > s
          /\ \A i \in 1..Len(evals) : ~evals[i].detected
    /\ timeout = {} => ww_ret # {FALSE}
    /\ ww_ret # {} <=> ww_pc = "returned"

\* a step taken at the top of the loop with the timeout expired
C13_ExpiredStep ==
    (ww_pc = "listening" /\ timeout # {} /\ \A s \in timeout : elapsed > s)
    => (ww_pc' = "returned" /\ ww_ret' = {FALSE})

\* C13: listen_for_wake_word returns true exactly when an evaluated window
\* was transcribed and its transcript contains the wake phrase as a
\* case-insensitive substring, and it does so at that very window; it
\* returns false only with a timeout given, more than timeout seconds
\* elapsed since the loop was entered and no window matched; with timeout =
\* None it never returns false; and once the timeout has expired at the top
\* of the loop the next step is the false return.
C13_WakeWordReturns == [](C13_Returns) /\ [][C13_ExpiredStep]_vars

\* The second window's transcript " MARS!" matched the phrase "mars" after
\* the deadline of the timeout had already passed during the pass.
C13_Witness ==
    /\ ww_ret = {TRUE}
    /\ Len(evals) = 2
    /\ evals[2].text = <<" ", "M", "A", "R", "S", "!">>
    /\ wake_word = <<"m", "a", "r", "s">>
    /\ \E s \in timeout : elapsed > s

\* a step in which the transcription backend raised on the window evaluated
C14_ErrorStep ==
    (evals' # evals /\ evals'[Len(evals')].error)
    => /\ ~evals'[Len(evals')].detected
       /\ ww_pc' = "listening"
       /\ stream_open'
       /\ ww_ret' = {}
       /\ window_frames' = SlideWindow(evals'[Len(evals')].frames, chunks_per_window)

\* C14: when the transcription backend raises on a window, the window is
\* not matched and the step leaves the detector listening with its stream
\* open and the window slid; the error does not end listen_for_wake_word.
C14_TranscriptionErrorNotFatal == [][C14_ErrorStep]_vars

\* A window whose transcription raised was followed by a window that matched.
C14_Witness ==
    /\ Len(evals) >= 2
    /\ evals[1].error
    /\ evals[Len(evals)].detected
    /\ ww_ret = {TRUE}

\* C15: the frame buffer never holds more than chunks_per_window frames,
\* every evaluated window has exactly chunks_per_window frames, and after a
\* window that did not match the buffer is the most recent half of it.
C15_HalfWindowSlide ==
    /\ Len(window_frames) <= chunks_per_window
    /\ \A i \in 1..Len(evals) : Len(evals[i].frames) = chunks_per_window

----------------------------------------------------------------------------
(* core/listener.py: Listener, and transcribe of main.py *)
(*                                                                         *)
(* A recorded frame is represented by its RMS, which is all record_audio   *)
(* looks at.                                                               *)

MaxRecordChunks == 4
MaxSilenceChunks == 2

\* lines 83-85: silence_threshold or the configured silence_threshold
SilenceThresholdOf(arg) ==
    IF arg = {} \/ arg = {0} THEN DefaultEnergyThreshold ELSE CHOOSE v \in arg : TRUE

\* lines 143-147: the silent run after a frame of the given RMS
NextSilentChunks_NoReset(run, rms, floor) == IF rms < floor THEN run + 1 ELSE run

NextSilentChunks(run, rms, floor) == IF rms < floor THEN run + 1 ELSE 0

\* line 148: the break condition
SilenceReached(run, captured, needed) == run >= needed /\ captured > needed

\* lines 186-188 of listener.py: except Exception: return ""
ListenerTranscribeOnError_Raises == [raised |-> TRUE, text |-> <<>>]

ListenerTranscribeOnError == [raised |-> FALSE, text |-> <<>>]

\* lines 174-188 of listener.py: Listener.transcribe; `loaded` says whether
\* _ensure_whisper gets a model, `backend` what the model does with the audio
ListenerTranscribe(loaded, backend) ==
    IF ~loaded
    THEN [fn |-> "Listener.transcribe", called |-> FALSE, backend_raised |-> FALSE,
          raised |-> TRUE, text |-> <<>>]
    ELSE IF backend.raises
    THEN [fn |-> "Listener.transcribe", called |-> TRUE, backend_raised |-> TRUE,
          raised |-> ListenerTranscribeOnError.raised,
          text |-> ListenerTranscribeOnError.text]
    ELSE [fn |-> "Listener.transcribe", called |-> TRUE, backend_raised |-> FALSE,
          raised |-> FALSE, text |-> strip(GetText(backend))]

\* lines 252-254 of main.py: except Exception: return ""
MainTranscribeOnError == [raised |-> FALSE, text |-> <<>>]

\* lines 242-256 of main.py: transcribe(model, pcm, logger); `tmp_ok` says
\* whether the temporary WAV file could be written
main_transcribe(tmp_ok, backend) ==
    IF ~tmp_ok
    THEN [fn |-> "main.transcribe", called |-> FALSE, backend_raised |-> FALSE,
          raised |-> TRUE, text |-> <<>>]
    ELSE IF backend.raises
    THEN [fn |-> "main.transcribe", called |-> TRUE, backend_raised |-> TRUE,
          raised |-> MainTranscribeOnError.raised, text |-> MainTranscribeOnError.text]
    ELSE [fn |-> "main.transcribe", called |-> TRUE, backend_raised |-> FALSE,
          raised |-> FALSE, text |-> strip(GetText(backend))]

RecordedRms == {0, 600, 1000}

SilenceThresholdArgs == {{}, {0}, {800}}

OtherComponentsIdle == MemoryIdle /\ RegistryIdle /\ EngineIdle /\ WakeIdle /\ VerifierIdle

\* Listener(silence_threshold, silence_duration, max_recording_duration)
InitListener ==
    /\ silence_threshold \in {SilenceThresholdOf(a) : a \in SilenceThresholdArgs}
    /\ silence_chunks_needed \in 0..MaxSilenceChunks
    /\ max_chunks \in 0..MaxRecordChunks
    /\ lis_pc = "idle"
    /\ frames = <<>>
    /\ silent_chunks = 0
    /\ lis_stream_open = FALSE
    /\ tr_log = <<>>
    /\ OtherComponentsIdle
    /\ AppIdle

\* lines 118-140 of listener.py: listen_once calls record_audio, which opens
\* the stream; with max_chunks = 0 the for loop has no pass and the finally
\* clause closes the stream at once
RecordAudio ==
    /\ lis_pc = "idle"
    /\ frames' = <<>>
    /\ silent_chunks' = 0
    /\ IF max_chunks = 0
       THEN lis_pc' = "recorded" /\ lis_stream_open' = FALSE
       ELSE lis_pc' = "recording" /\ lis_stream_open' = TRUE
    /\ UNCHANGED <<silence_threshold, silence_chunks_needed, max_chunks, tr_log>>
    /\ UNCHANGED <<memVars, regVars, engVars, wakeVars, svVars, appVars>>

\* lines 140-152 of listener.py: one pass of the for loop, and the end of
\* the loop when it breaks or when range(max_chunks) is used up
RecordFrame(rms) ==
    /\ lis_pc = "recording"
    /\ LET run == NextSilentChunks(silent_chunks, rms, silence_threshold)
           captured == Append(frames, rms)
       IN  /\ frames' = captured
           /\ silent_chunks' = run
           /\ IF \/ SilenceReached(run, Len(captured), silence_chunks_needed)
                 \/ Len(captured) = max_chunks
              THEN lis_pc' = "recorded" /\ lis_stream_open' = FALSE
              ELSE UNCHANGED <<lis_pc, lis_stream_open>>
    /\ UNCHANGED <<silence_threshold, silence_chunks_needed, max_chunks, tr_log>>
    /\ UNCHANGED <<memVars, regVars, engVars, wakeVars, svVars, appVars>>

\* lines 141 and 150-152 of listener.py: stream.read raises; the finally
\* clause closes the stream and the error leaves listen_once
RecordReadRaises ==
    /\ lis_pc = "recording"
    /\ lis_pc' = "raised"
    /\ lis_stream_open' = FALSE
    /\ UNCHANGED <<silence_threshold, silence_chunks_needed, max_chunks, frames,
                   silent_chunks, tr_log>>
    /\ UNCHANGED <<memVars, regVars, engVars, wakeVars, svVars, appVars>>

\* lines 199-202 of listener.py: the rest of listen_once
ListenOnceTranscribe(loaded, backend) ==
    /\ lis_pc = "recorded"
    /\ IF frames = <<>>
       THEN /\ tr_log' = Append(tr_log,
                  [fn |-> "Listener.listen_once", called |-> FALSE,
                   backend_raised |-> FALSE, raised |-> FALSE, text |-> <<>>])
            /\ lis_pc' = "returned"
       ELSE LET out == ListenerTranscribe(loaded, backend)
            IN  /\ tr_log' = Append(tr_log, out)
                /\ lis_pc' = IF out.raised THEN "raised" ELSE "returned"
    /\ UNCHANGED <<silence_threshold, silence_chunks_needed, max_chunks, frames,
                   silent_chunks, lis_stream_open>>
    /\ UNCHANGED <<memVars, regVars, engVars, wakeVars, svVars, appVars>>

\* main.py line 224: transcribe(model, pcm, logger), which uses no Listener
MainTranscribe(tmp_ok, backend) ==
    /\ lis_pc = "idle"
    /\ tr_log = <<>>
    /\ tr_log' = Append(tr_log, main_transcribe(tmp_ok, backend))
    /\ UNCHANGED <<silence_threshold, silence_chunks_needed, max_chunks, lis_pc,
                   frames, silent_chunks, lis_stream_open>>
    /\ UNCHANGED <<memVars, regVars, engVars, wakeVars, svVars, appVars>>

NextListener ==
    \/ RecordAudio
    \/ \E rms \in RecordedRms : RecordFrame(rms)
    \/ RecordReadRaises
    \/ \E loaded \in BOOLEAN, backend \in Transcriptions : ListenOnceTranscribe(loaded, backend)
    \/ \E tmp_ok \in BOOLEAN, backend \in Transcriptions : MainTranscribe(tmp_ok, backend)

SpecListener == InitListener /\ [][NextListener]_vars

----------------------------------------------------------------------------
(* Properties of Listener and of transcribe *)

\* the run of consecutive silent frames at the end of fs
RECURSIVE SilentRun(_, _)
SilentRun(fs, floor) ==
    IF fs = <<>> THEN 0
    ELSE IF fs[Len(fs)] < floor THEN 1 + SilentRun(SubSeq(fs, 1, Len(fs) - 1), floor)
    ELSE 0

\* record_audio stops at the first frame that satisfies StopAt: no earlier
\* frame satisfied it, a recording still running has not satisfied it with
\* its last frame, and one that ended with frames captured has
StopsAtFirst(StopAt(_)) ==
    /\ \A k \in 1..(Len(frames) - 1) : ~StopAt(k)
    /\ (lis_pc = "recording" /\ frames # <<>>) => ~StopAt(Len(frames))
    /\ (lis_pc \in {"recorded", "returned"} /\ frames # <<>>) => StopAt(Len(frames))

\* C16, as stated: record_audio stops at the first frame at which the run of
\* consecutive silent frames has reached silence_chunks_needed and at least
\* that many frames have been captured, or at which max_chunks frames have
\* been captured; an active frame resets the run; the recording never has
\* more than max_chunks frames.
C16_StopsAtSilenceOrMax ==
    LET StopAt(k) ==
            \/ /\ SilentRun(SubSeq(frames, 1, k), silence_threshold) >= silence_chunks_needed
               /\ k >= silence_chunks_needed
            \/ k >= max_chunks
    IN  /\ StopsAtFirst(StopAt)
        /\ silent_chunks = SilentRun(frames, silence_threshold)
        /\ Len(frames) <= max_chunks

\* C16, amended: the same with MORE than silence_chunks_needed frames
\* captured in the silence condition.
C16_StopsAtSilenceAfterMoreFrames ==
    LET StopAt(k) ==
            \/ /\ SilentRun(SubSeq(frames, 1, k), silence_threshold) >= silence_chunks_needed
               /\ k > silence_chunks_needed
            \/ k >= max_chunks
    IN  /\ StopsAtFirst(StopAt)
        /\ silent_chunks = SilentRun(frames, silence_threshold)
        /\ Len(frames) <= max_chunks

\* A recording that went on after one leading silent frame, although one
\* silent frame is the run needed, and stopped at the silence after speech,
\* before max_chunks.
C16_Witness ==
    /\ lis_pc = "recorded"
    /\ silence_chunks_needed = 1
    /\ max_chunks = 4
    /\ frames = <<0, 1000, 0>>

\* C17: whenever the transcription backend raised in Listener.transcribe
\* (called by listen_once) or in transcribe of main.py, the call did not
\* raise and returned the empty string.
C17_TranscriptionFailureGivesEmptyText ==
    \A i \in 1..Len(tr_log) :
        tr_log[i].backend_raised => ~tr_log[i].raised /\ tr_log[i].text = <<>>

\* Both functions met a failing backend; listen_once returned.
C17_Witness ==
    /\ Len(tr_log) = 2
    /\ tr_log[1].fn = "main.transcribe" /\ tr_log[1].backend_raised
    /\ tr_log[2].fn = "Listener.transcribe" /\ tr_log[2].backend_raised
    /\ lis_pc = "returned"
    /\ frames # <<>>

----------------------------------------------------------------------------
(* core/speaker_verify.py: SpeakerVerifier *)
(*                                                                         *)
(* A float is a fixed-point number of hundredths: 75 is 0.75 and 300 is    *)
(* 3.0.  Every arithmetic operation rounds its result to the nearest       *)
(* hundredth, as float arithmetic rounds to the nearest representable      *)
(* value; a result smaller than half a hundredth is 0, as a float result   *)
(* below the smallest representable magnitude is.  An embedding is a       *)
(* sequence of floats.                                                     *)
(* The profile file is {} when absent and {array} otherwise, an array      *)
(* being a record of its ndim and its data.                                *)

MaxVerifyCalls == 3

\* line 66: settings.get("mars", {}).get("voice_threshold", 0.75)
DefaultVoiceThreshold == 75

\* lines 65-67: threshold or the configured voice_threshold
ThresholdOf(arg) ==
    IF arg = {} \/ arg = {0} THEN DefaultVoiceThreshold ELSE CHOOSE v \in arg : TRUE

\* the number of representable values per unit
Scale == 100

\* n / d for d > 0, rounded to the nearest integer
RoundDiv(n, d) ==
    IF n < 0 THEN -((2 * (-n) + d) \div (2 * d)) ELSE (2 * n + d) \div (2 * d)

\* x * y and x / y of floats
FMul(x, y) == RoundDiv(x * y, Scale)

FDiv(x, y) == IF y < 0 THEN RoundDiv(-(x * Scale), -y) ELSE RoundDiv(x * Scale, y)

\* the largest r in lo..hi with r * r <= n, found by bisection
RECURSIVE ISqrt(_, _, _)
ISqrt(n, lo, hi) ==
    IF lo = hi THEN lo
    ELSE LET mid == (lo + hi + 1) \div 2
         IN  IF mid <= n \div mid THEN ISqrt(n, mid, hi) ELSE ISqrt(n, lo, mid - 1)

\* the square root of a float x >= 0
FSqrt(x) ==
    LET n == x * Scale
        r == ISqrt(n, 0, n)
    IN  IF n - r * r <= (r + 1) * (r + 1) - n THEN r ELSE r + 1

\* np.dot of two vectors of one length
RECURSIVE Dot(_, _)
Dot(a, b) == IF a = <<>> THEN 0 ELSE FMul(Head(a), Head(b)) + Dot(Tail(a), Tail(b))

\* np.linalg.norm
Norm(a) == FSqrt(Dot(a, a))

\* lines 180-186 without the test of line 184: the division by zero gives
\* nan, which is no number
_cosine_similarity_NoZeroTest(a, b) ==
    IF Len(a) # Len(b) THEN [raised |-> TRUE, value |-> {}]
    ELSE IF FMul(Norm(a), Norm(b)) = 0 THEN [raised |-> FALSE, value |-> {}]
    ELSE [raised |-> FALSE, value |-> {FDiv(Dot(a, b), FMul(Norm(a), Norm(b)))}]

\* lines 180-186: _cosine_similarity(a, b); np.dot raises ValueError for
\* vectors of different lengths, after the zero-norm test
_cosine_similarity(a, b) ==
    IF Norm(a) = 0 \/ Norm(b) = 0 THEN [raised |-> FALSE, value |-> {0}]
    ELSE IF Len(a) # Len(b) THEN [raised |-> TRUE, value |-> {}]
    ELSE [raised |-> FALSE, value |-> {FDiv(Dot(a, b), FMul(Norm(a), Norm(b)))}]

\* lines 76-101: load_profile() on the given file
load_profile(file) ==
    IF file = {} THEN [raised |-> FALSE, loaded |-> FALSE, embedding |-> {}]
    ELSE LET array == CHOOSE c \in file : TRUE
         IN  IF array.ndim # 1
             THEN [raised |-> TRUE, loaded |-> FALSE, embedding |-> {}]
             ELSE [raised |-> FALSE, loaded |-> TRUE, embedding |-> {array.data}]

\* lines 142-146: no profile could be loaded
NoProfileVerdict_FailClosed == {FALSE}

NoProfileVerdict == {TRUE}

\* lines 153-155: except Exception: return True
VerifyErrorVerdict_Raises == [raised |-> TRUE, ret |-> {}]

VerifyErrorVerdict == [raised |-> FALSE, ret |-> {TRUE}]

\* lines 148-155: the try block of verify, with the owner embedding P;
\* `backend` is what get_embedding does with the audio
CompareWithProfile(P, floor, backend) ==
    IF backend.raises
    THEN [embedded |-> TRUE, embed_raised |-> TRUE, embedding |-> {},
          similarity_raised |-> FALSE, similarity |-> {},
          raised |-> VerifyErrorVerdict.raised, ret |-> VerifyErrorVerdict.ret]
    ELSE LET sim == _cosine_similarity(backend.embedding, P)
         IN  IF sim.raised
             THEN [embedded |-> TRUE, embed_raised |-> FALSE,
                   embedding |-> {backend.embedding},
                   similarity_raised |-> TRUE, similarity |-> {},
                   raised |-> VerifyErrorVerdict.raised, ret |-> VerifyErrorVerdict.ret]
             ELSE [embedded |-> TRUE, embed_raised |-> FALSE,
                   embedding |-> {backend.embedding},
                   similarity_raised |-> FALSE, similarity |-> sim.value,
                   raised |-> FALSE, ret |-> {\A v \in sim.value : v >= floor}]

NotCompared ==
    [embedded |-> FALSE, embed_raised |-> FALSE, embedding |-> {},
     similarity_raised |-> FALSE, similarity |-> {}]

\* line 140: if self._owner_embedding is None
NeedsLoad_Always(owner) == TRUE

NeedsLoad(owner) == owner = {}

\* lines 126-155: verify(audio_data) with the cached embedding `owner` and
\* the profile file `file`: the outcome and the embedding cached afterwards
verify(owner, file, floor, backend) ==
    LET head == [called |-> TRUE, file_present |-> file # {}, cached |-> owner # {},
                 load_called |-> NeedsLoad(owner)]
        loaded == load_profile(file)
        Using(P) == head @@ [load_raised |-> FALSE, profile |-> {P}]
                         @@ CompareWithProfile(P, floor, backend)
    IN  IF ~NeedsLoad(owner)
        THEN [out |-> Using(CHOOSE P \in owner : TRUE), owner |-> owner]
        ELSE IF loaded.raised
        THEN [out |-> head @@ NotCompared
                           @@ [load_raised |-> TRUE, profile |-> {}, raised |-> TRUE, ret |-> {}],
              owner |-> owner]
        ELSE IF ~loaded.loaded
        THEN [out |-> head @@ NotCompared
                           @@ [load_raised |-> FALSE, profile |-> {}, raised |-> FALSE,
                               ret |-> NoProfileVerdict],
              owner |-> owner]
        ELSE [out |-> Using(CHOOSE P \in loaded.embedding : TRUE),
              owner |-> loaded.embedding]

\* what get_embedding does with the audio of a command: it raises, or it
\* returns the speaker's embedding
EmbeddingRaises == [raises |-> TRUE, embedding |-> <<>>]

EmbeddingOf(v) == [raises |-> FALSE, embedding |-> v]

SpeakerEmbeddings == {<<300, 400>>, <<0, 100>>, <<100, 0>>, <<0, 0>>}

EmbeddingBackends == {EmbeddingRaises} \cup {EmbeddingOf(v) : v \in SpeakerEmbeddings}

\* the owner's embedding, a 2-D array, and a 1-D array of another length
ProfileArrays ==
    {[ndim |-> 1, data |-> <<300, 400>>],
     [ndim |-> 2, data |-> <<<<300, 400>>, <<300, 400>>>>],
     [ndim |-> 1, data |-> <<200>>]}

ProfileFiles == {{}} \cup {{a} : a \in ProfileArrays}

ThresholdArgs == {{}, {0}, {60}, {80}}

NoVoiceFrontEnd == MemoryIdle /\ RegistryIdle /\ EngineIdle /\ WakeIdle /\ ListenerIdle

\* SpeakerVerifier(threshold, profile_path), with whatever is at profile_path
InitVerifier ==
    /\ threshold_arg \in ThresholdArgs
    /\ threshold = ThresholdOf(threshold_arg)
    /\ profile_file \in ProfileFiles
    /\ owner_embedding = {}
    /\ sv_calls = 0
    /\ sv_out = NoVerify
    /\ NoVoiceFrontEnd
    /\ AppIdle

\* verifier.verify(audio_data)
Verify(backend) ==
    /\ sv_calls < MaxVerifyCalls
    /\ LET v == verify(owner_embedding, profile_file, threshold, backend)
       IN  /\ sv_out' = v.out
           /\ owner_embedding' = v.owner
    /\ sv_calls' = sv_calls + 1
    /\ UNCHANGED <<profile_file, threshold_arg, threshold>>
    /\ UNCHANGED <<memVars, regVars, engVars, wakeVars, lisVars, appVars>>

\* verifier.load_profile(), called by the application itself; an error
\* leaves the verifier as it was
LoadProfile ==
    /\ sv_calls < MaxVerifyCalls
    /\ LET loaded == load_profile(profile_file)
       IN  owner_embedding' = IF loaded.loaded THEN loaded.embedding ELSE owner_embedding
    /\ UNCHANGED <<profile_file, threshold_arg, threshold, sv_calls, sv_out>>
    /\ UNCHANGED <<memVars, regVars, engVars, wakeVars, lisVars, appVars>>

\* the enrollment script writes the file at profile_path, or the file is
\* removed or replaced
ProfileFileChanges(file) ==
    /\ file # profile_file
    /\ profile_file' = file
    /\ UNCHANGED <<threshold_arg, threshold, owner_embedding, sv_calls, sv_out>>
    /\ UNCHANGED <<memVars, regVars, engVars, wakeVars, lisVars, appVars>>

NextVerifier ==
    \/ \E backend \in EmbeddingBackends : Verify(backend)
    \/ LoadProfile
    \/ \E file \in ProfileFiles : ProfileFileChanges(file)

SpecVerifier == InitVerifier /\ [][NextVerifier]_vars

----------------------------------------------------------------------------
(* Properties of SpeakerVerifier *)

\* C18, as stated: every verify call made while no owner profile file exists
\* returns true without computing an embedding.
C18_NoProfileFileAccepts ==
    (sv_out.called /\ ~sv_out.file_present)
    => sv_out.ret = {TRUE} /\ ~sv_out.raised /\ ~sv_out.embedded

\* C18, amended: every verify call made while no owner profile file exists
\* and no owner embedding is cached from an earlier load returns true without
\* computing an embedding, however many calls came before.
C18_NoProfileNoCacheAccepts ==
    (sv_out.called /\ ~sv_out.file_present /\ ~sv_out.cached)
    => sv_out.ret = {TRUE} /\ ~sv_out.raised /\ ~sv_out.embedded

\* The third call in a row that found no file and nothing cached.
C18_Witness ==
    /\ sv_calls = 3
    /\ profile_file = {}
    /\ owner_embedding = {}
    /\ sv_out.called /\ ~sv_out.file_present /\ ~sv_out.cached
    /\ sv_out.ret = {TRUE}

\* the threshold the verifier has to use: the constructor's argument when
\* one was supplied, the configured one otherwise
SuppliedThreshold == IF threshold_arg = {} THEN threshold ELSE CHOOSE t \in threshold_arg : TRUE

\* cos(E, P) >= t / 100, with the similarity of a zero vector taken as 0
SimilarityAtLeast(E, P, t) ==
    IF Norm(E) = 0 \/ Norm(P) = 0 THEN 0 >= t
    ELSE 100 * Scale * Dot(E, P) >= t * Norm(E) * Norm(P)

\* C19: a verify call that used an owner profile and met no error returned
\* true exactly when the cosine similarity of the audio's embedding and the
\* profile is greater than or equal to the threshold, the threshold being
\* the one supplied to the constructor whenever one was supplied.
C19_AcceptsAtOrAboveSuppliedThreshold ==
    (/\ sv_out.called
     /\ sv_out.profile # {}
     /\ ~sv_out.raised /\ ~sv_out.embed_raised /\ ~sv_out.similarity_raised)
    => \A E \in sv_out.embedding, P \in sv_out.profile :
          sv_out.ret = {SimilarityAtLeast(E, P, SuppliedThreshold)}

\* C20, as stated: a verify call in which profile loading, embedding
\* computation or similarity computation raised returned true and did not
\* raise.
C20_AnyErrorFailsOpen ==
    (sv_out.called /\ (sv_out.load_raised \/ sv_out.embed_raised \/ sv_out.similarity_raised))
    => sv_out.ret = {TRUE} /\ ~sv_out.raised

\* C20, amended: a verify call in which embedding computation or similarity
\* computation raised returned true and did not raise; a call in which
\* profile loading raised did raise, returned nothing and cached nothing.
C20_ComparisonErrorFailsOpen ==
    /\ (sv_out.called /\ (sv_out.embed_raised \/ sv_out.similarity_raised))
       => sv_out.ret = {TRUE} /\ ~sv_out.raised
    /\ (sv_out.called /\ sv_out.load_raised)
       => sv_out.raised /\ sv_out.ret = {} /\ ~sv_out.embedded

\* The similarity computation raised on a cached profile of another length
\* than the embedding, and verify returned true.
C20_Witness ==
    /\ sv_out.called
    /\ sv_out.similarity_raised
    /\ sv_out.profile = {<<200>>}
    /\ sv_out.embedding = {<<300, 400>>}
    /\ sv_out.ret = {TRUE}
    /\ ~sv_out.raised

\* an array of the shape the embedding backend produces
WellFormedEmbedding(v) == \A e \in SpeakerEmbeddings : Len(v) = Len(e)

\* C21: a malformed owner profile (an array that is not 1-D, or a 1-D array
\* whose length is not the embedding backend's) is never cached as the owner
\* embedding and never used by a verify call that returns a verdict: a call
\* that met one raised.
C21_MalformedProfileIsFatal ==
    /\ \A P \in owner_embedding : WellFormedEmbedding(P)
    /\ sv_out.called =>
          /\ \A P \in sv_out.profile : WellFormedEmbedding(P)
          /\ sv_out.load_raised => sv_out.raised /\ sv_out.ret = {}

\* a verify call
C28_VerifyStep ==
    sv_calls' = sv_calls + 1 =>
        IF owner_embedding = {}
        THEN /\ sv_out'.load_called
             /\ owner_embedding' # {} => ~sv_out'.load_raised /\ sv_out'.file_present
        ELSE /\ ~sv_out'.load_called
             /\ owner_embedding' = owner_embedding
             /\ sv_out'.profile = owner_embedding

\* C28: a verify call with no owner embedding cached loads the profile, and
\* one with an owner embedding cached neither calls load_profile nor changes
\* the cached embedding, and compares with it, whatever has become of the
\* profile file since.
C28_ProfileLoadedOnceByVerify == [][C28_VerifyStep]_vars

\* A second verify call compared with the cached profile after the file had
\* been replaced by another array.
C28_Witness ==
    /\ sv_calls = 2
    /\ owner_embedding = {<<300, 400>>}
    /\ profile_file = {[ndim |-> 1, data |-> <<200>>]}
    /\ sv_out.cached
    /\ ~sv_out.load_called
    /\ sv_out.profile = {<<300, 400>>}

----------------------------------------------------------------------------
\* the entries the registry holds under `name`
EntriesNamed(sk, name) == {i \in 1..Len(sk) : sk[i].name = name}

\* the names the registry holds
NamesOf(sk) == {sk[i].name : i \in 1..Len(sk)}

\* what execute(name) gives when the handler `func` is the one invoked with
\* the arguments it accepts
OutcomeOf(name, func) ==
    IF func.exc_class = "" THEN func.out ELSE ExecuteErrorReply(name, func.out)

\* one entry and one schema per distinct name
C26_OneEntryPerName ==
    /\ \A n \in NamesOf(skills) : Cardinality(EntriesNamed(skills, n)) = 1
    /\ Len(list_skills(skills)) = Cardinality(NamesOf(skills))
    /\ \A n \in NamesOf(skills) :
          Cardinality({i \in 1..Len(skills) :
                          list_skills(skills)[i].function.name = n}) = 1

\* a register call makes its handler the one execute invokes under that name
\* and leaves every other name's entry alone; no other operation changes the
\* registry
C26_RegisterStep ==
    /\ \A n \in SkillNames, f \in Handlers, p \in Schemas :
          Register(n, f, p) =>
              /\ EntriesNamed(skills', n) # {}
              /\ \A i \in EntriesNamed(skills', n) : skills'[i].func = f
              /\ execute(skills', n, f.params).invoked = <<n>>
              /\ execute(skills', n, f.params).ret = OutcomeOf(n, f)
              /\ \A m \in SkillNames \ {n} :
                    /\ EntriesNamed(skills', m) = EntriesNamed(skills, m)
                    /\ \A i \in EntriesNamed(skills, m) : skills'[i] = skills[i]
    /\ exec_out'.op # "register" => skills' = skills

\* C26: registering a skill under a name that is already registered replaces
\* the earlier entry: the registry always holds exactly one entry per distinct
\* name, list_skills returns exactly one schema per distinct name, and
\* execute(name) invokes the handler of the most recent register call for
\* that name.
C26_LastWriterWins == [](C26_OneEntryPerName) /\ [][C26_RegisterStep]_vars

\* a name registered a second time with another handler, one entry kept
C26_Witness ==
    /\ exec_out.op = "register"
    /\ EntriesNamed(exec_out.before, exec_out.name) # {}
    /\ Len(skills) = Len(exec_out.before)
    /\ Len(skills) = 2
    /\ \A i \in EntriesNamed(skills, exec_out.name) :
          skills[i].func # exec_out.before[i].func

----------------------------------------------------------------------------
\* the last message the memory holds has this role
EndsWith(h, role) == Len(h) > 0 /\ h[Len(h)].role = role

\* what one step of a chat turn does to the memory
C29_TurnStep ==
    /\ pc # "await" /\ pc' = "await" =>
          /\ responses' = <<>>
          /\ EndsWith(history', "user")
    /\ pc = "await" /\ pc' = "await" => history' = history
    /\ pc = "await" /\ pc' # "await" =>
          IF IsError(responses'[1])
          THEN /\ history' = history
               /\ EndsWith(history', "user")
          ELSE /\ pc' = "returned"
               /\ history' = add_message(history, max_messages, "assistant", ret')

\* C29: each chat call appends the user message to the memory before the
\* backend is called; a turn whose first backend call succeeded ends by
\* appending the returned string as one assistant message, and a turn whose
\* first backend call failed appends nothing more and leaves the memory ending
\* with the user message.
C29_ChatAppendsUserThenReply == [][C29_TurnStep]_vars

----------------------------------------------------------------------------
(***************************************************************************)
(* A caller of get_history (core/memory.py, lines 52-75).                  *)
(*                                                                         *)
(* A Python list is an object: two references to one list see each other's *)
(* appends and removals.  The caller's list is a record of its items and   *)
(* of whether it is the very object self._history refers to.  An operation *)
(* that changes a list in place (append, pop, clear) changes it for every  *)
(* holder; an assignment to self._history makes the memory refer to        *)
(* another list and leaves the old one to whoever still holds it.          *)
(***************************************************************************)
MaxSnapshotOps == 4

\* line 58: list(self._history) is a new list with the same items
list_copy_SameList(h) == [same_object |-> TRUE, items |-> h]

list_copy(h) == [same_object |-> FALSE, items |-> h]

\* lines 70-71: trim_history assigns a new list to self._history
Rebinds(h, n) == Len(h) > n

\* what the caller's list is after the memory's list was changed in place to
\* `now` and then, if `rebound`, replaced by another list
AfterMemoryChange(held, now, rebound) ==
    {IF s.same_object THEN [same_object |-> ~rebound, items |-> now] ELSE s : s \in held}

\* list.pop() of a non-empty list
PyPop(s) == SubSeq(s, 1, Len(s) - 1)

SnapshotMessages == {Message("user", Str("Hello!")), Message("assistant", Str("Good day, sir."))}

InitSnapshot ==
    /\ max_messages \in 0..MaxMessages
    /\ history = <<>>
    /\ added = <<>>
    /\ snapshot = {}
    /\ snap_calls = 0
    /\ OrchestratorIdle
    /\ CosineIdle
    /\ RegistryIdle
    /\ EngineIdle
    /\ VoiceIdle

\* memory.add_message(role, content), lines 49-50: an in-place append, then
\* trim_history
SnapAddMessage(m) ==
    /\ snap_calls < MaxSnapshotOps
    /\ snap_calls' = snap_calls + 1
    /\ history' = add_message(history, max_messages, m.role, m.content)
    /\ added' = Append(added, m)
    /\ snapshot' = AfterMemoryChange(snapshot, Append(history, m),
                                     Rebinds(Append(history, m), max_messages))
    /\ UNCHANGED <<max_messages, regVars, engVars, voiceVars, orchVars, cosVars>>

\* memory.trim_history(n), lines 70-71
SnapTrimHistory(n) ==
    /\ snap_calls < MaxSnapshotOps
    /\ snap_calls' = snap_calls + 1
    /\ history' = trim_history(history, n)
    /\ snapshot' = AfterMemoryChange(snapshot, history, Rebinds(history, n))
    /\ UNCHANGED <<max_messages, added, regVars, engVars, voiceVars, orchVars, cosVars>>

\* memory.clear(), line 75: self._history.clear() empties the list in place
SnapClear ==
    /\ snap_calls < MaxSnapshotOps
    /\ snap_calls' = snap_calls + 1
    /\ history' = <<>>
    /\ snapshot' = AfterMemoryChange(snapshot, <<>>, FALSE)
    /\ UNCHANGED <<max_messages, added, regVars, engVars, voiceVars, orchVars, cosVars>>

\* snapshot = memory.get_history(), line 58
SnapGetHistory ==
    /\ snap_calls < MaxSnapshotOps
    /\ snap_calls' = snap_calls + 1
    /\ snapshot' = {list_copy(history)}
    /\ UNCHANGED <<memVars, regVars, engVars, voiceVars, orchVars, cosVars>>

\* the caller changes its list in place to `now`, as _process_response does
\* with the list _build_messages made (ai_engine.py lines 178 and 188)
CallerChanges(now) ==
    /\ snapshot # {}
    /\ snap_calls < MaxSnapshotOps
    /\ snap_calls' = snap_calls + 1
    /\ snapshot' = {[s EXCEPT !.items = now] : s \in snapshot}
    /\ history' = IF \E s \in snapshot : s.same_object THEN now ELSE history
    /\ UNCHANGED <<max_messages, added, regVars, engVars, voiceVars, orchVars, cosVars>>

\* snapshot.append(m)
SnapshotAppend(m) == \E s \in snapshot : CallerChanges(Append(s.items, m))

\* snapshot.pop()
SnapshotPop == \E s \in snapshot : s.items # <<>> /\ CallerChanges(PyPop(s.items))

NextSnapshot ==
    \/ \E m \in SnapshotMessages : SnapAddMessage(m)
    \/ \E n \in 0..MaxMessages : SnapTrimHistory(n)
    \/ SnapClear
    \/ SnapGetHistory
    \/ \E m \in SnapshotMessages : SnapshotAppend(m)
    \/ SnapshotPop

SpecSnapshot == InitSnapshot /\ [][NextSnapshot]_vars

\* the items of the list the caller holds
Held == {s.items : s \in snapshot}

\* get_history returns the items of the memory in their order; the memory's
\* operations leave a held list as it was; the caller's changes of its list
\* leave the memory as it was
C27_SnapshotStep ==
    /\ SnapGetHistory => Held' = {history} /\ history' = history
    /\ (\/ \E m \in SnapshotMessages : SnapAddMessage(m)
        \/ \E n \in 0..MaxMessages : SnapTrimHistory(n)
        \/ SnapClear) => Held' = Held
    /\ (\/ \E m \in SnapshotMessages : SnapshotAppend(m)
        \/ SnapshotPop) => history' = history /\ Held' # Held

\* C27: get_history returns a snapshot in insertion order that is independent
\* of the memory: later add_message, trim_history and clear calls do not
\* change a list it returned, and appending to or removing from a returned
\* list does not change the memory.
C27_SnapshotIsIndependent == [][C27_SnapshotStep]_vars

\* a held list that a clear of the memory left alone and that the caller
\* then extended
C27_Witness ==
    /\ snap_calls = MaxSnapshotOps
    /\ history = <<>>
    /\ added # <<>>
    /\ \E s \in snapshot : Len(s.items) = 2 /\ ~s.same_object

----------------------------------------------------------------------------
(***************************************************************************)
(* The main loop: run() of main.py (lines 514-654) with the functions it   *)
(* calls: record_audio, transcribe, listen_for_wake_word, verify_speaker,  *)
(* get_ai_response and speak.                                              *)
(*                                                                         *)
(* orch_pc names the statement run() executes next; one action is one      *)
(* blocking call of the loop.  SIGTERM runs _handle_signal between two     *)
(* statements; Ctrl+C raises KeyboardInterrupt wherever the loop is.  A    *)
(* recording is named by the iteration and the purpose it was made for.    *)
(***************************************************************************)
MaxIterations == 2

\* line 548: the default of voice.verification_threshold, in hundredths
VerifyThreshold == 75

\* line 581: assistant.wake_word
MainWakeWord == <<"m", "a", "r", "s">>

\* lines 552-571: verification stays on only with resemblyzer installed and
\* a profile file present
SetupVerification(configured, available, enrolled) ==
    configured /\ available /\ enrolled

\* lines 182-195: `read_ok` says whether every stream.read returned
record_audio(read_ok, id) ==
    IF read_ok
    THEN [raised |-> FALSE, stream_open |-> FALSE, pcm |-> {id}]
    ELSE [raised |-> TRUE, stream_open |-> TRUE, pcm |-> {}]

\* line 216
_contains_wake_word(text, ww) == IsSubstring(lower(ww), lower(text))

SpeakerCheckRaises == [raises |-> TRUE, similarity |-> 0]

SpeakerCheckResult(x) == [raises |-> FALSE, similarity |-> x]

\* lines 295-305
verify_speaker(backend, floor) ==
    IF backend.raises THEN TRUE ELSE backend.similarity >= floor

AIRaises == [raises |-> TRUE, content |-> {}]

AIResult(content) == [raises |-> FALSE, content |-> content]

\* line 364
MainAIErrorReply == <<"I'm sorry, I ran into a problem reaching the AI service.">>

\* lines 352-364
get_ai_response(backend) ==
    IF backend.raises
    THEN [failed |-> TRUE, reply |-> MainAIErrorReply]
    ELSE [failed |-> FALSE,
          reply |-> strip(IF backend.content = {} THEN <<>>
                          ELSE CHOOSE c \in backend.content : TRUE)]

\* line 603: while not _shutdown
LoopContinues_IgnoresFlag(flag) == TRUE

LoopContinues(flag) == ~flag

\* lines 606-607
AfterWake(detected) == IF detected THEN "ack" ELSE "top"

\* lines 616-624
AfterTranscript_NeverVerifies(text, enabled) ==
    IF text = <<>> THEN "reprompt" ELSE "ai"

AfterTranscript(text, enabled) ==
    IF text = <<>> THEN "reprompt" ELSE IF enabled THEN "verify" ELSE "ai"

\* lines 625-635
AfterVerify(accepted) == IF accepted THEN "ai" ELSE "reject"

\* lines 638-647: the reply, apology included, is recorded and spoken
AfterAI_RetriesOnFailure(failed) == IF failed THEN "ai" ELSE "speak"

AfterAI(failed) == "speak"

Spoken(kind, text) == [kind |-> kind, text |-> text]

SpeakerChecks == {SpeakerCheckRaises, SpeakerCheckResult(50), SpeakerCheckResult(75)}

AIBackends == {AIRaises, AIResult({}), AIResult({<<" ", "O", "k", ".">>})}

nonOrchVars == <<memVars, regVars, engVars, voiceVars, snapVars, cosVars>>

InitOrchestrator ==
    /\ cfg_verify \in BOOLEAN
    /\ \E available \in BOOLEAN, enrolled \in BOOLEAN :
          do_verify = SetupVerification(cfg_verify, available, enrolled)
    /\ shutdown = FALSE
    /\ orch_pc = "top"
    /\ exit_cause = ""
    /\ iteration = 0
    /\ conversation_history = <<>>
    /\ command = NoCommand
    /\ it = NoIteration
    /\ pa_terminated = FALSE
    /\ mr_stream_open = FALSE
    /\ MemoryIdle
    /\ RegistryIdle
    /\ EngineIdle
    /\ VoiceIdle
    /\ SnapshotIdle
    /\ CosineIdle

\* lines 649-654: the loop is left and pa.terminate() runs in the finally
Exit(cause, leak) ==
    /\ orch_pc' = "exited"
    /\ exit_cause' = cause
    /\ pa_terminated' = TRUE
    /\ mr_stream_open' = leak
    /\ UNCHANGED <<cfg_verify, do_verify, shutdown, iteration,
                   conversation_history, command, it>>

\* one statement of the loop body ran and the loop goes on at `next`
Continue(next) ==
    /\ orch_pc' = next
    /\ UNCHANGED <<cfg_verify, do_verify, shutdown, exit_cause, iteration,
                   pa_terminated, mr_stream_open>>

\* line 603
LoopTest ==
    /\ orch_pc = "top"
    /\ IF LoopContinues(shutdown)
       THEN /\ iteration < MaxIterations
            /\ orch_pc' = "wake"
            /\ iteration' = iteration + 1
            /\ it' = [NoIteration EXCEPT !.history_before = conversation_history]
            /\ UNCHANGED <<cfg_verify, do_verify, shutdown, exit_cause,
                           conversation_history, command, pa_terminated,
                           mr_stream_open>>
       ELSE Exit("shutdown", mr_stream_open)
    /\ UNCHANGED nonOrchVars

\* lines 606-607 and 501-506: listen_for_wake_word
MainListenForWakeWord(read_ok, tmp_ok, backend) ==
    /\ orch_pc = "wake"
    /\ LET rec == record_audio(read_ok, <<iteration, "wake">>)
           tr == main_transcribe(tmp_ok, backend)
           detected == _contains_wake_word(tr.text, MainWakeWord)
       IN  IF rec.raised THEN Exit("exception", rec.stream_open)
           ELSE IF tr.raised THEN Exit("exception", rec.stream_open)
           ELSE /\ it' = [it EXCEPT !.wake = detected]
                /\ Continue(AfterWake(detected))
                /\ UNCHANGED <<conversation_history, command>>
    /\ UNCHANGED nonOrchVars

\* line 611: speak("Yes?")
Acknowledge ==
    /\ orch_pc = "ack"
    /\ it' = [it EXCEPT !.spoke = Append(@, Spoken("ack", <<>>))]
    /\ Continue("record")
    /\ UNCHANGED <<conversation_history, command>>
    /\ UNCHANGED nonOrchVars

\* line 613: command_pcm = record_audio(pa, seconds=RECORD_SECONDS)
RecordCommand(read_ok) ==
    /\ orch_pc = "record"
    /\ LET rec == record_audio(read_ok, <<iteration, "command">>)
       IN  IF rec.raised THEN Exit("exception", rec.stream_open)
           ELSE /\ command' = [command EXCEPT !.pcm = rec.pcm]
                /\ Continue("transcribe")
                /\ UNCHANGED <<conversation_history, it>>
    /\ UNCHANGED nonOrchVars

\* lines 614-624: command_text = transcribe(...), then the two tests
TranscribeCommand(tmp_ok, backend) ==
    /\ orch_pc = "transcribe"
    /\ LET tr == main_transcribe(tmp_ok, backend)
       IN  IF tr.raised THEN Exit("exception", mr_stream_open)
           ELSE /\ command' = [command EXCEPT !.text = tr.text]
                /\ it' = [it EXCEPT !.transcribed = @ + 1, !.transcript = tr.text]
                /\ Continue(AfterTranscript(tr.text, do_verify))
                /\ UNCHANGED conversation_history
    /\ UNCHANGED nonOrchVars

\* lines 617-619
Reprompt ==
    /\ orch_pc = "reprompt"
    /\ it' = [it EXCEPT !.spoke = Append(@, Spoken("reprompt", <<>>))]
    /\ Continue("top")
    /\ UNCHANGED <<conversation_history, command>>
    /\ UNCHANGED nonOrchVars

\* lines 625-627: verify_speaker on command_pcm
VerifySpeaker(backend) ==
    /\ orch_pc = "verify"
    /\ LET accepted == verify_speaker(backend, VerifyThreshold)
       IN  /\ it' = [it EXCEPT !.checked = command.pcm, !.verdict = {accepted}]
           /\ Continue(AfterVerify(accepted))
    /\ UNCHANGED <<conversation_history, command>>
    /\ UNCHANGED nonOrchVars

\* lines 628-635
Reject ==
    /\ orch_pc = "reject"
    /\ it' = [it EXCEPT !.spoke = Append(@, Spoken("reject", <<>>))]
    /\ Continue("top")
    /\ UNCHANGED <<conversation_history, command>>
    /\ UNCHANGED nonOrchVars

\* lines 638-644: get_ai_response, then the two appends
GetAIResponse(backend) ==
    /\ orch_pc = "ai"
    /\ LET r == get_ai_response(backend)
       IN  /\ it' = [it EXCEPT !.ai_calls = @ + 1, !.ai_failed = r.failed,
                               !.reply = r.reply]
           /\ conversation_history' =
                 conversation_history \o <<Message("user", command.text),
                                           Message("assistant", r.reply)>>
           /\ Continue(AfterAI(r.failed))
    /\ UNCHANGED command
    /\ UNCHANGED nonOrchVars

\* line 647: speak(reply)
SpeakReply ==
    /\ orch_pc = "speak"
    /\ it' = [it EXCEPT !.spoke = Append(@, Spoken("reply", it.reply))]
    /\ Continue("top")
    /\ UNCHANGED <<conversation_history, command>>
    /\ UNCHANGED nonOrchVars

\* lines 588-593: SIGTERM; the handler sets the flag and returns
HandleSignal ==
    /\ orch_pc \notin {"not started", "exited"}
    /\ ~shutdown
    /\ shutdown' = TRUE
    /\ it' = [it EXCEPT !.signalled_at = orch_pc]
    /\ UNCHANGED <<cfg_verify, do_verify, orch_pc, exit_cause, iteration,
                   conversation_history, command, pa_terminated, mr_stream_open>>
    /\ UNCHANGED nonOrchVars

\* lines 649-650: Ctrl+C; inside record_audio it arrives with the stream open
KeyboardInterrupt ==
    /\ orch_pc \notin {"not started", "exited"}
    /\ \E leak \in IF orch_pc \in {"wake", "record"} THEN BOOLEAN ELSE {mr_stream_open} :
          Exit("interrupt", leak)
    /\ UNCHANGED nonOrchVars

\* the statements of the loop
LoopStep ==
    \/ LoopTest
    \/ \E read_ok \in BOOLEAN, tmp_ok \in BOOLEAN, backend \in Transcriptions :
          MainListenForWakeWord(read_ok, tmp_ok, backend)
    \/ Acknowledge
    \/ \E read_ok \in BOOLEAN : RecordCommand(read_ok)
    \/ \E tmp_ok \in BOOLEAN, backend \in Transcriptions :
          TranscribeCommand(tmp_ok, backend)
    \/ Reprompt
    \/ \E backend \in SpeakerChecks : VerifySpeaker(backend)
    \/ Reject
    \/ \E backend \in AIBackends : GetAIResponse(backend)
    \/ SpeakReply

NextOrchestrator ==
    \/ LoopStep
    \/ HandleSignal
    \/ KeyboardInterrupt

SpecOrchestrator == InitOrchestrator /\ [][NextOrchestrator]_vars

\* every blocking call of the loop returns
SpecOrchestratorFair == SpecOrchestrator /\ WF_vars(LoopStep)

----------------------------------------------------------------------------
\* the running iteration spoke a message of this kind
Spoke(kind) == \E i \in 1..Len(it.spoke) : it.spoke[i].kind = kind

\* the running iteration refused its command
Refused == (it.transcribed > 0 /\ it.transcript = <<>>) \/ it.verdict = {FALSE}

\* a command the speaker check accepted, the check made on the command's audio
CheckedAndAccepted ==
    /\ it.checked = {<<iteration, "command">>}
    /\ it.checked = command.pcm
    /\ it.verdict = {TRUE}

\* a refused command gets its message, no AI call and no history entry
C23_RefusalIsSilent ==
    Refused =>
        /\ it.ai_calls = 0
        /\ conversation_history = it.history_before
        /\ orch_pc \in {"reprompt", "reject", "top", "exited"}
        /\ orch_pc = "top" =>
              IF it.verdict = {FALSE} THEN Spoke("reject") /\ ~Spoke("reprompt")
              ELSE Spoke("reprompt") /\ ~Spoke("reject")

\* C23 as stated: a command is dispatched to the AI backend only if, in the
\* same iteration, the wake word was detected, the transcript is non-empty
\* and, when speaker verification is enabled in the configuration, the speaker
\* check returned true for the command's audio; a refused command gets its
\* message, no AI call and no history entry.
C23_DispatchOnlyIfConfiguredCheckPassed ==
    /\ it.ai_calls > 0 =>
          /\ it.wake
          /\ it.transcript # <<>>
          /\ cfg_verify => CheckedAndAccepted
    /\ C23_RefusalIsSilent

\* C23, amended: as above, with the speaker check required when verification
\* is still enabled after start-up, which turns it off when resemblyzer is
\* not installed or no voice profile exists.
C23_DispatchOnlyIfActiveCheckPassed ==
    /\ it.ai_calls > 0 =>
          /\ it.wake
          /\ it.transcript # <<>>
          /\ do_verify => CheckedAndAccepted
          /\ ~do_verify => it.checked = {}
    /\ C23_RefusalIsSilent

\* a command dispatched after the check accepted its audio, in the second
\* iteration
C23_Witness ==
    /\ iteration = 2
    /\ do_verify
    /\ it.ai_calls = 1
    /\ CheckedAndAccepted
    /\ conversation_history # it.history_before

----------------------------------------------------------------------------
\* the statements that may follow each statement of the loop
Successors(p) ==
    CASE p = "top" -> {"wake", "exited"}
      [] p = "wake" -> {"ack", "top", "exited"}
      [] p = "ack" -> {"record", "exited"}
      [] p = "record" -> {"transcribe", "exited"}
      [] p = "transcribe" -> {"reprompt", "verify", "ai", "exited"}
      [] p = "reprompt" -> {"top", "exited"}
      [] p = "verify" -> {"ai", "reject", "exited"}
      [] p = "reject" -> {"top", "exited"}
      [] p = "ai" -> {"speak", "exited"}
      [] p = "speak" -> {"top", "exited"}
      [] OTHER -> {}

\* the loop is left by the shutdown test at its top, or by an exception
ExitIsShutdownOrException ==
    orch_pc' = "exited" =>
        \/ orch_pc = "top" /\ shutdown /\ exit_cause' = "shutdown"
        \/ exit_cause' \in {"exception", "interrupt"}

\* one phase follows another in the order of the loop, and each ending of an
\* iteration leads to the top of the loop
C24_PhaseStep ==
    orch_pc' # orch_pc =>
        /\ orch_pc' \in Successors(orch_pc)
        /\ ExitIsShutdownOrException
        /\ orch_pc = "wake" /\ ~it'.wake => orch_pc' \in {"top", "exited"}
        /\ orch_pc = "transcribe" /\ it'.transcript = <<>> =>
              orch_pc' \in {"reprompt", "exited"}
        /\ orch_pc = "verify" /\ it'.verdict = {FALSE} => orch_pc' = "reject"
        /\ orch_pc = "ai" /\ orch_pc' # "exited" =>
              orch_pc' = "speak" /\ it'.ai_calls = it.ai_calls + 1
        /\ orch_pc' = "wake" => it'.transcribed = 0 /\ it'.ai_calls = 0

\* the command is transcribed at most once and the AI is called at most once
C24_NoRetry == it.transcribed <= 1 /\ it.ai_calls <= 1

\* C24: the phases of the loop are strictly sequential and every iteration
\* ends back at wake-word listening: after an undetected wake word, an empty
\* transcript, a rejected speaker, a failed AI call or a spoken reply the loop
\* is at its top again (or has exited), and within one iteration the command
\* is transcribed at most once and the AI is called at most once.
C24_SequentialPhasesNoRetry ==
    /\ [](C24_NoRetry)
    /\ [][C24_PhaseStep]_vars
    /\ (orch_pc \notin {"top", "exited"}) ~> (orch_pc \in {"top", "exited"})

\* back at the top of the loop after a failed AI call whose apology was spoken
C24_Witness ==
    /\ orch_pc = "top"
    /\ iteration = 2
    /\ it.ai_failed
    /\ it.ai_calls = 1
    /\ it.transcribed = 1
    /\ Spoke("reply")

----------------------------------------------------------------------------
\* the iteration that was running has run to one of its ends
IterationComplete ==
    \/ ~it.wake
    \/ Spoke("reprompt")
    \/ Spoke("reject")
    \/ Spoke("reply")

\* with the flag set no iteration is started, the flag stays set, and the
\* statements of the command in flight follow each other as without it
C25_ShutdownStep ==
    shutdown =>
        /\ shutdown'
        /\ iteration' = iteration
        /\ orch_pc' # orch_pc =>
              /\ orch_pc' \in Successors(orch_pc) \ {"wake"}
              /\ ExitIsShutdownOrException

\* the loop is only left with the audio device released, and a loop left
\* because of the flag has finished its command
C25_ExitState ==
    /\ orch_pc = "exited" => pa_terminated
    /\ exit_cause = "shutdown" => shutdown /\ IterationComplete

\* C25: once the signal handler has set the shutdown flag, the loop finishes
\* the command in flight, starts no further iteration, then leaves the loop
\* and releases the audio device; the flag is only read at the top of the
\* loop.
C25_GracefulShutdown ==
    /\ [](C25_ExitState)
    /\ [][C25_ShutdownStep]_vars
    /\ shutdown ~> (orch_pc = "exited" /\ pa_terminated)

\* the signal arrived while the command was being recorded; the reply was
\* still spoken before the loop was left
C25_Witness ==
    /\ exit_cause = "shutdown"
    /\ it.signalled_at = "record"
    /\ it.ai_calls = 1
    /\ Spoke("reply")
    /\ pa_terminated

----------------------------------------------------------------------------
\* C30: every audio input stream opened by WakeWordDetector's
\* listen_for_wake_word, by Listener.record_audio and by record_audio of
\* main.py is stopped and closed on every exit path of the function, a match,
\* a timeout and an exception while reading included.
C30_StreamsClosedOnExit ==
    /\ ww_pc \in {"returned", "raised"} => ~stream_open
    /\ lis_pc \in {"recorded", "returned", "raised"} => ~lis_stream_open
    /\ ~mr_stream_open

----------------------------------------------------------------------------
(***************************************************************************)
(* _cosine_similarity as a function (core/speaker_verify.py, lines         *)
(* 180-186): two vectors are chosen, the function is applied to them in    *)
(* both orders.                                                            *)
(***************************************************************************)
MaxComponent == 2

\* a component too small for its square to be representable
Tiny == 5

Components == {c * Scale : c \in -MaxComponent..MaxComponent} \cup {-Tiny, Tiny}

Vectors == {<<x, y>> : x \in Components, y \in Components} \cup {<<Scale>>, <<0>>}

InitCosine ==
    /\ cos_a \in Vectors
    /\ cos_b \in Vectors
    /\ cos_out = [ab |-> NoCosine, ba |-> NoCosine]
    /\ MemoryIdle
    /\ RegistryIdle
    /\ EngineIdle
    /\ VoiceIdle
    /\ SnapshotIdle
    /\ OrchestratorIdle

\* what a call of the function is seen to do
CallOf(a, b) ==
    [called |-> TRUE, raised |-> _cosine_similarity(a, b).raised,
     value |-> _cosine_similarity(a, b).value]

\* _cosine_similarity(a, b)
ApplyCosine ==
    /\ ~cos_out.ab.called
    /\ cos_out' = [cos_out EXCEPT !.ab = CallOf(cos_a, cos_b)]
    /\ UNCHANGED <<cos_a, cos_b, memVars, regVars, engVars, voiceVars, snapVars, orchVars>>

\* _cosine_similarity(b, a)
ApplyCosineSwapped ==
    /\ ~cos_out.ba.called
    /\ cos_out' = [cos_out EXCEPT !.ba = CallOf(cos_b, cos_a)]
    /\ UNCHANGED <<cos_a, cos_b, memVars, regVars, engVars, voiceVars, snapVars, orchVars>>

NextCosine == ApplyCosine \/ ApplyCosineSwapped

SpecCosine == InitCosine /\ [][NextCosine]_vars

\* -v
Neg(v) == [i \in 1..Len(v) |-> -v[i]]

\* a vector with a component that is not zero
Nonzero(v) == \E i \in 1..Len(v) : v[i] # 0

\* a vector of zero norm as an argument gives 0.0 and no exception
C22_ZeroNormGivesZero ==
    cos_out.ab.called /\ (Norm(cos_a) = 0 \/ Norm(cos_b) = 0) =>
        ~cos_out.ab.raised /\ cos_out.ab.value = {0}

\* the function is symmetric in its arguments
C22_Symmetric == cos_out.ab.called /\ cos_out.ba.called => cos_out.ab = cos_out.ba

====
